---------------------------- MODULE Spec2Model ----------------------------
(***************************************************************************)
(* Verification model of the BIP-340 Data Integrity cryptosuite           *)
(* (jintekc/bip340-cryptosuite).                                           *)
(*                                                                         *)
(* The repository holds several snapshots of the same classes.  Every     *)
(* snapshot that a property depends on is modelled and tagged:            *)
(*   PrivateKey  "utils"  src/src/keys/private-key.ts   (bytes | bigint)   *)
(*               "flip"   src/src/keys/public-key.ts:218 (parity fix-up)   *)
(*               "crypto" src/src/crypto/public-key.ts:223                 *)
(*   PublicKey   "xonly"  src/src/keys/public-key.ts:18                    *)
(*               "len33"  src/src/crypto/public-key.ts:144                 *)
(*   Multikey    "M4"     src/unnamed/part_004:267  verify(signature,data) *)
(*               "M5"     src/unnamed/part_005:38   verify(message,sig)    *)
(*               "M0"     src/unnamed/part_000:146  verify(message,sig)    *)
(*   Cryptosuite "DI"     src/unnamed/part_004:47                          *)
(*               "JCS"    src/src/jcs-cryptosuite.ts                       *)
(*                                                                         *)
(* secp256k1 is replaced by the curve y^2 = x^3 + 7 over GF(43), a group   *)
(* of prime order 31 with the same shape (a = 0, b = 7, p = 3 mod 4), so   *)
(* that scalar multiplication, y-parity and negation are computed and not  *)
(* assumed.  SHA-256, BIP-340 Schnorr and base58btc are ideal: SHA-256 and *)
(* base58btc are injective, and a signature verifies exactly for the      *)
(* x-only key, message and nonce it was made with.                         *)
(***************************************************************************)
EXTENDS Integers, Sequences, FiniteSets, TLC

VARIABLES
    sk,        \* key layer: the PrivateKey object the caller holds (or Nil)
    pk,        \* key layer: the PublicKey object the caller holds (or Nil)
    kp,        \* key layer: the KeyPair object the caller holds (or Nil)
    multikey,  \* signing layer: the signer's Multikey (or Nil)
    sig,       \* signing layer: the last signature made by Multikey.sign
    cs,        \* proof layer: the cryptosuite instance with its Multikey
    document,  \* proof layer: the caller's document object (or Nil)
    options,   \* proof layer: the caller's proof options object (or Nil)
    added,     \* proof layer: the arguments of the addProof call that secured the document
    prov,      \* proof layer: what happened to the document since it was made
    signCount, \* proof layer: number of signatures the cryptosuite's Multikey has made
    calls,     \* proof layer: the createProof calls in flight and the objects they share
    last       \* outcome of the last operation

keyVars == <<sk, pk, kp>>
signVars == <<multikey, sig>>
proofVars == <<cs, document, options, added, prov, signCount, calls>>
vars ==
    <<sk, pk, kp, multikey, sig, cs, document, options, added, prov, signCount, calls, last>>

(***************************************************************************)
(* Bounds of the model                                                     *)
(***************************************************************************)
\* seeds 0..MaxLow and n-MaxLow..n+1 are offered to the PrivateKey
\* constructors: 0, n and n+1 are among them, and so are scalars of both
\* parities together with their negations
MaxLow == 2
\* number of distinct auxiliary random values Multikey.sign may draw
MaxAux == 2

(***************************************************************************)
(* Program constants                                                       *)
(***************************************************************************)
PRIVATE_KEY_LENGTH == 32
XONLY_LENGTH == 32
COMPRESSED_LENGTH == 33
SIGNATURE_LENGTH == 64
EVEN_PREFIX == 2
ODD_PREFIX == 3

\* stand-in for secp256k1 (see the header); same field names as the source
CURVE == [p |-> 43, n |-> 31, a |-> 0, b |-> 7, Gx |-> 2, Gy |-> 12]

\* JavaScript's undefined / null for object-valued slots
Nil == [nil |-> TRUE]

NoError == "none"

(***************************************************************************)
(* Byte arrays (Uint8Array) are sequences of 0..255, big-endian            *)
(***************************************************************************)
\* secret >> 8*k: the scalars of the model are below 2^31, so every shift
\* by four bytes or more leaves zero
shiftRightBytes(secret, k) ==
    IF k >= 4 THEN 0 ELSE secret \div (256 ^ k)

\* bigint -> len bytes:  Number(secret >> 8*(len-1-i) & 0xff) for each i
toBytes(secret, len) ==
    [i \in 1..len |-> shiftRightBytes(secret, len - i) % 256]

RECURSIVE toSecret(_)
\* bytes.reduce((acc, byte) => (acc << 8n) | BigInt(byte), 0n), folded by
\* halves:  reduce(high ++ low) = (reduce(high) << 8*|low|) | reduce(low)
toSecret(bytes) ==
    IF bytes = << >> THEN 0
    ELSE IF Len(bytes) = 1 THEN bytes[1]
    ELSE LET h == Len(bytes) \div 2
             high == toSecret(SubSeq(bytes, 1, Len(bytes) - h))
             low == toSecret(SubSeq(bytes, Len(bytes) - h + 1, Len(bytes)))
         IN IF high = 0 THEN low ELSE high * (256 ^ h) + low

\* Uint8Array.prototype.slice(from, to) with 0-based, end-exclusive indices
slice(bytes, from, to) ==
    SubSeq(bytes, from + 1, IF to > Len(bytes) THEN Len(bytes) ELSE to)

(***************************************************************************)
(* Curve arithmetic (tiny-secp256k1 / @noble), computed on CURVE           *)
(***************************************************************************)
RECURSIVE modPow(_, _, _)
modPow(base, exp, mod) ==
    IF exp = 0 THEN 1 % mod
    ELSE LET h == modPow(base, exp \div 2, mod)
             q == (h * h) % mod
         IN IF exp % 2 = 1 THEN (q * (base % mod)) % mod ELSE q

modInv(v, mod) == modPow(v % mod, mod - 2, mod)

\* the point at infinity
Infinity == [inf |-> TRUE, x |-> 0, y |-> 0]

pointAdd(P, Q) ==
    IF P.inf THEN Q
    ELSE IF Q.inf THEN P
    ELSE IF P.x = Q.x /\ (P.y + Q.y) % CURVE.p = 0 THEN Infinity
    ELSE LET p == CURVE.p
             l == IF P = Q
                  THEN (3 * P.x * P.x * modInv(2 * P.y, p)) % p
                  ELSE (((Q.y - P.y) % p) * modInv((Q.x - P.x) % p, p)) % p
             x3 == (l * l - P.x - Q.x) % p
         IN [inf |-> FALSE, x |-> x3, y |-> (l * (P.x - x3) - P.y) % p]

RECURSIVE multiplesOfG(_)
\* <<1*G, 2*G, ..., k*G>> by repeated addition
multiplesOfG(k) ==
    IF k = 1 THEN <<[inf |-> FALSE, x |-> CURVE.Gx, y |-> CURVE.Gy]>>
    ELSE LET prev == multiplesOfG(k - 1)
         IN Append(prev, pointAdd(prev[k - 1], prev[1]))

Multiples == multiplesOfG(CURVE.n)

\* d * G for 1 <= d <= n
scalarMult(d) == Multiples[d]

\* tinysecp.isPrivate(bytes): 32 bytes holding a scalar in [1, n-1]
isPrivate(bytes) ==
    /\ Len(bytes) = PRIVATE_KEY_LENGTH
    /\ toSecret(bytes) >= 1
    /\ toSecret(bytes) < CURVE.n

\* tinysecp.pointFromScalar(bytes, true) for a valid scalar:
\* the compressed point  prefix || x,  prefix 0x02 for even y, 0x03 for odd y
pointFromScalar(bytes) ==
    LET Q == scalarMult(toSecret(bytes))
    IN <<IF Q.y % 2 = 0 THEN EVEN_PREFIX ELSE ODD_PREFIX>> \o toBytes(Q.x, XONLY_LENGTH)

(***************************************************************************)
(* Results of operations that may throw                                    *)
(***************************************************************************)
Ok(v) == [err |-> NoError, val |-> v]
Throw(e) == [err |-> e, val |-> Nil]

\* constructor arguments: a Uint8Array, a bigint, or nothing
BytesSeed(b) == [t |-> "bytes", b |-> b, v |-> 0]
BigintSeed(v) == [t |-> "bigint", b |-> << >>, v |-> v]
UndefinedSeed == [t |-> "undefined", b |-> << >>, v |-> 0]

(***************************************************************************)
(* PublicKey                                                               *)
(***************************************************************************)
\* src/src/keys/public-key.ts:28  (same text in src/src/crypto/public-key.ts:28)
PublicKey_constructor(bytes) ==
    IF Len(bytes) = COMPRESSED_LENGTH /\ bytes[1] = ODD_PREFIX
    THEN Throw("PUBLIC_KEY_CONSTRUCTOR_ERROR")
    ELSE Ok([variant |-> "xonly",
             bytes |-> IF Len(bytes) = XONLY_LENGTH THEN <<EVEN_PREFIX>> \o bytes ELSE bytes])

\* src/src/crypto/public-key.ts:147
PublicKey33_constructor(publicKey) ==
    IF Len(publicKey) # COMPRESSED_LENGTH
    THEN Throw("Btc1KeyManagerError")
    ELSE Ok([variant |-> "len33", bytes |-> publicKey])

\* get compressed / get prefix / get x / hex / equals
PublicKey_compressed(pub) == pub.bytes
PublicKey_prefix(pub) == PublicKey_compressed(pub)[1]
PublicKey_x(pub) == slice(PublicKey_compressed(pub), 1, 33)
PublicKey_equals(pub, other) == PublicKey_compressed(pub) = PublicKey_compressed(other)

(***************************************************************************)
(* PrivateKey                                                              *)
(***************************************************************************)
\* src/src/keys/private-key.ts:33   constructor(seed: bytes | bigint)
PrivateKey_constructor(seed) ==
    IF seed.t = "undefined" \/ (seed.t = "bigint" /\ seed.v = 0)
    THEN Throw("PRIVATE_KEY_CONSTRUCTOR_ERROR")
    ELSE IF seed.t = "bytes" /\ Len(seed.b) # PRIVATE_KEY_LENGTH
    THEN Throw("PRIVATE_KEY_CONSTRUCTOR_ERROR")
    ELSE IF seed.t = "bigint" /\ (seed.v < 1 \/ seed.v >= CURVE.n)
    THEN Throw("PRIVATE_KEY_CONSTRUCTOR_ERROR")
    \* _bytes = seed ?? toBytes(seed): seed is never nullish here, so the
    \* field holds the seed itself, bytes or bigint
    ELSE Ok([variant |-> "utils", raw |-> seed])

\* src/src/keys/public-key.ts:227   constructor(bytes)
PrivateKeyFlip_constructor(seed) ==
    IF seed.t # "bytes" \/ Len(seed.b) # PRIVATE_KEY_LENGTH
    THEN Throw("PRIVATE_KEY_CONSTRUCTOR_ERROR")
    ELSE IF ~isPrivate(seed.b)
    THEN Throw("PRIVATE_KEY_CONSTRUCTOR_ERROR")
    ELSE Ok([variant |-> "flip", raw |-> seed])

\* src/src/crypto/public-key.ts:232   constructor(bytes)
PrivateKeyCrypto_constructor(seed) ==
    IF seed.t = "bytes" /\ ~isPrivate(seed.b)
    THEN Throw("PRIVATE_KEY_CONSTRUCTOR_ERROR")
    ELSE Ok([variant |-> "crypto", raw |-> seed])

\* fromSecret: secret.toString(16).padStart(64, '0') -> bytes -> constructor
\* (src/src/keys/private-key.ts:229, keys/public-key.ts:364, crypto/public-key.ts:299)
fromSecret(variant, secret) ==
    LET bytes == BytesSeed(toBytes(secret, PRIVATE_KEY_LENGTH))
    IN CASE variant = "utils" -> PrivateKey_constructor(bytes)
         [] variant = "flip" -> PrivateKeyFlip_constructor(bytes)
         [] OTHER -> PrivateKeyCrypto_constructor(bytes)

\* the scalar a PrivateKey object holds (-1: the object holds no key at all)
heldScalar(key) ==
    CASE key.raw.t = "bytes" -> toSecret(key.raw.b)
      [] key.raw.t = "bigint" -> key.raw.v
      [] OTHER -> -1

\* get bytes (keys/private-key.ts:78) / get raw (keys/public-key.ts:267,
\* crypto/public-key.ts:242): a copy of _bytes;  new Uint8Array(bigint) throws
PrivateKey_bytes(key) ==
    CASE key.raw.t = "bytes" -> [err |-> NoError, val |-> key.raw.b]
      [] key.raw.t = "bigint" -> [err |-> "TypeError", val |-> << >>]
      [] OTHER -> [err |-> "RAW_PRIVATE_KEY_ERROR", val |-> << >>]

\* get secret (src/src/keys/private-key.ts:94): this.bytes folded into a bigint
PrivateKey_secret(key) ==
    LET b == PrivateKey_bytes(key)
    IN IF b.err # NoError THEN [err |-> b.err, val |-> -1]
       ELSE [err |-> NoError, val |-> toSecret(b.val)]

\* Result of a derivation: the PublicKey (or the error) and the PrivateKey
\* object as the call leaves it
Derived(r, key) == [err |-> r.err, val |-> r.val, self |-> key]

\* src/src/keys/private-key.ts:151 and :244
\* PrivateKey.computePublicKey -> PrivateKeyUtils.computePublicKey(this.bytes)
PrivateKeyUtils_computePublicKey(key) ==
    LET b == PrivateKey_bytes(key)
    IN IF b.err # NoError THEN Derived(Throw(b.err), key)
       ELSE IF ~isPrivate(b.val) THEN Derived(Throw("Expected Private"), key)
       ELSE Derived(PublicKey_constructor(pointFromScalar(b.val)), key)

\* set secret (src/src/keys/public-key.ts:248)
PrivateKeyFlip_setSecret(key, secretn) ==
    LET bytes == toBytes(secretn, PRIVATE_KEY_LENGTH)
    IN IF ~isPrivate(bytes) THEN Throw("PRIVATE_KEY_SET_ERROR")
       ELSE Ok([key EXCEPT !.raw = BytesSeed(bytes)])

\* src/src/keys/public-key.ts:328
PrivateKey_computePublicKey(key) ==
    LET b == PrivateKey_bytes(key)
    IN IF b.err # NoError THEN Derived(Throw(b.err), key)
       ELSE IF ~isPrivate(b.val) THEN Derived(Throw("Expected Private"), key)
       ELSE LET publicKeyBytes == pointFromScalar(b.val)
            IN IF publicKeyBytes[1] = EVEN_PREFIX
               THEN Derived(PublicKey_constructor(publicKeyBytes), key)
               ELSE LET flipped == CURVE.n - toSecret(b.val)
                        set == PrivateKeyFlip_setSecret(key, flipped)
                    IN IF set.err # NoError THEN Derived(Throw(set.err), key)
                       ELSE LET again == pointFromScalar(set.val.raw.b)
                            IN IF again[1] # EVEN_PREFIX
                               THEN Derived(Throw("PRIVATE_KEY_PARITY_ERROR"), set.val)
                               ELSE Derived(PublicKey_constructor(again), set.val)

\* src/src/crypto/public-key.ts:282   toPublicKey
PrivateKey_toPublicKey(key) ==
    LET b == PrivateKey_bytes(key)
    IN IF b.err # NoError THEN Derived(Throw(b.err), key)
       ELSE IF ~isPrivate(b.val) THEN Derived(Throw("Expected Private"), key)
       ELSE Derived(PublicKey_constructor(pointFromScalar(b.val)), key)

\* privateKey.computePublicKey() / privateKey.toPublicKey() of the object's class
computePublicKey(key) ==
    CASE key.variant = "utils" -> PrivateKeyUtils_computePublicKey(key)
      [] key.variant = "flip" -> PrivateKey_computePublicKey(key)
      [] OTHER -> PrivateKey_toPublicKey(key)

(***************************************************************************)
(* KeyPair                                                                 *)
(***************************************************************************)
\* src/src/keys/key-pair.ts:30 and src/src/crypto/key-pair.ts:33
KeyPair_constructor(privateKey, publicKey) ==
    IF privateKey = Nil /\ publicKey = Nil
    THEN Throw("KEYPAIR_CONSTRUCTOR_ERROR")
    ELSE IF publicKey # Nil
    THEN Ok([privateKey |-> privateKey, publicKey |-> publicKey])
    ELSE LET d == computePublicKey(privateKey)
         IN IF d.err # NoError THEN Throw(d.err)
            ELSE Ok([privateKey |-> d.self, publicKey |-> d.val])

\* set publicKey (src/src/keys/key-pair.ts:44, src/src/crypto/key-pair.ts:44)
KeyPair_setPublicKey(keyPair, publicKey) ==
    [keyPair EXCEPT !.publicKey = publicKey]

(***************************************************************************)
(* Abstract byte strings of the signing layer                              *)
(*   messages, SHA-256 digests and signatures carry their length and an    *)
(*   ideal body; they are never mixed with the key bytes above             *)
(***************************************************************************)
Message(i) == [len |-> 15, kind |-> "msg", body |-> [id |-> i]]

\* Hex inputs of @noble/curves: a hex string stands for the bytes it encodes
ensureBytes(hex) == IF hex.kind = "hex" THEN hex.body ELSE hex

\* schnorr.sign(message, privateKey, auxRand)  (@noble/curves), called at
\* src/unnamed/part_004:341.  BIP-340 signs with the scalar whose point has
\* even y, so the signature is bound to the x coordinate of d*G.
schnorr_sign(message, privateKey, aux) ==
    IF ~isPrivate(privateKey) THEN Throw("noble: invalid private key")
    ELSE Ok([len |-> SIGNATURE_LENGTH, kind |-> "sig",
             body |-> [r |-> aux,
                       s |-> [px |-> slice(pointFromScalar(privateKey), 1, 33),
                              m |-> ensureBytes(message), r |-> aux]]])

\* schnorr.verify(signature, message, publicKey)  (@noble/curves), called at
\* src/unnamed/part_004:347: throws on a signature that is not 64 bytes or a
\* key that is not 32 bytes, and returns false on every other mismatch
schnorr_verify(signature, message, publicKey) ==
    IF ensureBytes(signature).len # SIGNATURE_LENGTH
    THEN [err |-> "noble: signature expected 64 bytes", b |-> FALSE]
    ELSE IF Len(publicKey) # XONLY_LENGTH THEN [err |-> "noble: publicKey expected 32 bytes", b |-> FALSE]
    ELSE [err |-> NoError,
          b |-> LET sg == ensureBytes(signature)
                IN /\ sg.kind = "sig"
                   /\ sg.body.s = [px |-> publicKey, m |-> ensureBytes(message), r |-> sg.body.r]]

(***************************************************************************)
(* Multikey (src/unnamed/part_004:267)                                     *)
(***************************************************************************)
\* a constructor that takes whatever it is given
Multikey_constructor_unchecked(id, controller, keyPair) ==
    Ok([impl |-> "M4", id |-> id, controller |-> controller, keyPair |-> keyPair])

\* constructor({ id, controller, keyPair })
Multikey_constructor(id, controller, keyPair) ==
    IF keyPair = Nil THEN Throw("MULTIKEY_CONSTRUCTOR_ERROR")
    ELSE IF keyPair.publicKey = Nil THEN Throw("MULTIKEY_CONSTRUCTOR_ERROR")
    ELSE Ok([impl |-> "M4", id |-> id, controller |-> controller, keyPair |-> keyPair])

\* get privateKey of KeyPair (src/src/keys/key-pair.ts:61): throws when absent
KeyPair_privateKey(keyPair) ==
    IF keyPair.privateKey = Nil THEN Throw("PRIVATE_KEY_ERROR") ELSE Ok(keyPair.privateKey)

\* get isSigner:  !!this.keyPair.privateKey
Multikey_isSigner(mk) ==
    LET g == KeyPair_privateKey(mk.keyPair)
    IN [err |-> g.err, b |-> g.err = NoError]

\* sign(data)
Multikey_sign(mk, data, aux) ==
    LET signer == Multikey_isSigner(mk)
    IN IF signer.err # NoError THEN Throw(signer.err)
       ELSE IF ~signer.b THEN Throw("MULTIKEY_SIGN_ERROR")
       ELSE LET raw == PrivateKey_bytes(mk.keyPair.privateKey)
            IN IF raw.err # NoError THEN Throw(raw.err)
               ELSE schnorr_sign(data, raw.val, aux)

\* verify(signature, data)
Multikey_verify(mk, signature, data) ==
    schnorr_verify(signature, data, PublicKey_x(mk.keyPair.publicKey))

\* a fullId that prepends the controller to every id
Multikey_fullId_always(mk) == mk.controller \o mk.id

\* fullId()
\* strings are sequences of tokens: startsWith('#') looks at the first one
Multikey_fullId(mk) ==
    IF Len(mk.id) > 0 /\ mk.id[1] = "#" THEN mk.controller \o mk.id ELSE mk.id

(***************************************************************************)
(* Key layer: the caller builds keys, key pairs and a Multikey             *)
(***************************************************************************)
SeedValues == (0 .. MaxLow) \cup ((CURVE.n - MaxLow) .. (CURVE.n + 1))

ByteSeeds ==
    {BytesSeed(toBytes(v, PRIVATE_KEY_LENGTH)) : v \in SeedValues}
        \cup {BytesSeed(toBytes(1, 31)), BytesSeed(toBytes(1, 33))}

BigintSeeds == {BigintSeed(v) : v \in SeedValues}

\* the arguments each constructor's signature admits
SeedsOf(variant) ==
    IF variant = "utils" THEN ByteSeeds \cup BigintSeeds \cup {UndefinedSeed}
    ELSE ByteSeeds \cup {UndefinedSeed}

construct(variant, seed) ==
    CASE variant = "utils" -> PrivateKey_constructor(seed)
      [] variant = "flip" -> PrivateKeyFlip_constructor(seed)
      [] OTHER -> PrivateKeyCrypto_constructor(seed)

\* x coordinates offered to the PublicKey constructors: those of d*G for
\* d in 1..MaxLow
XInputs == {slice(pointFromScalar(toBytes(d, PRIVATE_KEY_LENGTH)), 1, 33) : d \in 1 .. MaxLow}

PublicKeyInputs ==
    XInputs
        \cup {<<prefix>> \o x : prefix \in {EVEN_PREFIX, ODD_PREFIX, 4}, x \in XInputs}
        \cup {toBytes(2, 31), toBytes(2, 34)}

constructPublic(variant, bytes) ==
    IF variant = "xonly" THEN PublicKey_constructor(bytes) ELSE PublicKey33_constructor(bytes)

Messages == {Message(1), Message(2)}

MK_ID == <<"#", "initialKey">>
MK_CONTROLLER == <<"did:btc1:k1q">>

\* key pairs of other parties: built by the constructor from a private key alone
OtherKeyPairs ==
    {KeyPair_constructor(PrivateKeyFlip_constructor(BytesSeed(toBytes(d, PRIVATE_KEY_LENGTH))).val, Nil).val :
        d \in 1 .. 2}

KeyInit ==
    /\ sk = Nil
    /\ pk = Nil
    /\ kp = Nil
    /\ multikey = Nil
    /\ sig = Nil
    /\ cs = Nil
    /\ document = Nil
    /\ options = Nil
    /\ added = Nil
    /\ prov = "none"
    /\ signCount = 0
    /\ calls = Nil
    /\ last = [op |-> "init"]

\* new PrivateKey(seed)
NewPrivateKey ==
    /\ kp = Nil
    /\ sk = Nil
    /\ \E variant \in {"utils", "flip", "crypto"} :
        \E seed \in SeedsOf(variant) :
          LET r == construct(variant, seed)
          IN /\ sk' = r.val
             /\ last' = [op |-> "newPrivateKey", variant |-> variant, seed |-> seed,
                         err |-> r.err]
    /\ UNCHANGED <<pk, kp, signVars, proofVars>>

\* PrivateKey.fromSecret(secret)
FromSecret ==
    /\ kp = Nil
    /\ sk = Nil
    /\ \E variant \in {"utils", "flip", "crypto"} :
        \E secret \in SeedValues :
          LET r == fromSecret(variant, secret)
          IN /\ sk' = r.val
             /\ last' = [op |-> "newPrivateKey", variant |-> variant,
                         seed |-> BigintSeed(secret), err |-> r.err]
    /\ UNCHANGED <<pk, kp, signVars, proofVars>>

\* sk.computePublicKey()
ComputePublicKey ==
    /\ kp = Nil
    /\ sk # Nil
    /\ pk = Nil
    /\ LET d == computePublicKey(sk)
       IN /\ sk' = d.self
          /\ pk' = d.val
          /\ last' = [op |-> "computePublicKey", before |-> sk, err |-> d.err]
    /\ UNCHANGED <<kp, signVars, proofVars>>

\* new PublicKey(bytes)
NewPublicKey ==
    /\ kp = Nil
    /\ pk = Nil
    /\ \E variant \in {"xonly", "len33"} :
        \E bytes \in PublicKeyInputs :
          LET r == constructPublic(variant, bytes)
          IN /\ pk' = r.val
             /\ last' = [op |-> "newPublicKey", variant |-> variant, input |-> bytes,
                         err |-> r.err]
    /\ UNCHANGED <<sk, kp, signVars, proofVars>>

\* new KeyPair({ privateKey, publicKey }); the pair takes over the key objects
NewKeyPair ==
    /\ kp = Nil
    /\ \E usePrivate \in BOOLEAN, usePublic \in BOOLEAN :
          LET privateKey == IF usePrivate THEN sk ELSE Nil
              publicKey == IF usePublic THEN pk ELSE Nil
              r == KeyPair_constructor(privateKey, publicKey)
          IN /\ (privateKey # Nil /\ publicKey # Nil /\ publicKey.variant = "len33")
                    => privateKey.variant = "crypto"
             /\ kp' = r.val
             /\ sk' = IF r.err = NoError THEN Nil ELSE sk
             /\ pk' = IF r.err = NoError THEN Nil ELSE pk
             /\ last' = [op |-> "newKeyPair", both |-> (privateKey # Nil /\ publicKey # Nil),
                         neither |-> (privateKey = Nil /\ publicKey = Nil), err |-> r.err]
    /\ UNCHANGED <<signVars, proofVars>>

\* keyPair.publicKey = new PublicKey(bytes)
SetPublicKey ==
    /\ kp # Nil
    /\ \E bytes \in PublicKeyInputs :
          LET r == PublicKey_constructor(bytes)
          IN /\ r.err = NoError
             /\ kp' = KeyPair_setPublicKey(kp, r.val)
             /\ last' = [op |-> "setPublicKey", err |-> NoError]
    /\ UNCHANGED <<sk, pk, signVars, proofVars>>

KeyNext ==
    \/ NewPrivateKey
    \/ FromSecret
    \/ ComputePublicKey
    \/ NewPublicKey
    \/ NewKeyPair
    \/ SetPublicKey

KeySpec == KeyInit /\ [][KeyNext]_vars

(***************************************************************************)
(* Signing layer: a Multikey signs, the same or another Multikey verifies  *)
(*   (src/unnamed/part_004:267 imports its key classes from keys/ and      *)
(*   reads privateKey.raw, which the PrivateKey of                         *)
(*   src/src/keys/public-key.ts:218 has)                                   *)
(***************************************************************************)
\* PrivateKey and PublicKey objects the constructors hand out
PrivateKeys ==
    {PrivateKeyFlip_constructor(seed).val : seed \in ByteSeeds \cup {UndefinedSeed}} \ {Nil}

PublicKeys == {PublicKey_constructor(bytes).val : bytes \in XInputs} \ {Nil}

\* new Multikey({ id, controller, keyPair: new KeyPair({ privateKey, publicKey }) })
NewMultikey ==
    /\ multikey = Nil
    /\ \E privateKey \in PrivateKeys \cup {Nil}, publicKey \in PublicKeys \cup {Nil} :
          LET keyPair == KeyPair_constructor(privateKey, publicKey)
              r == IF keyPair.err # NoError THEN Throw(keyPair.err)
                   ELSE Multikey_constructor(MK_ID, MK_CONTROLLER, keyPair.val)
          IN /\ multikey' = r.val
             /\ last' = [op |-> "newMultikey", err |-> r.err]
    /\ UNCHANGED <<proofVars, keyVars, sig>>

\* multikey.sign(m)
MultikeySign ==
    /\ multikey # Nil
    /\ \E m \in Messages, aux \in 1 .. MaxAux :
          LET r == Multikey_sign(multikey, m, aux)
          IN /\ sig' = IF r.err = NoError THEN [sig |-> r.val, m |-> m] ELSE sig
             /\ last' = [op |-> "sign", err |-> r.err]
    /\ UNCHANGED <<proofVars, keyVars, multikey>>

\* k.verify(signature, m) by the signer's Multikey k or by another party's k2
MultikeyVerify ==
    /\ multikey # Nil
    /\ sig # Nil
    /\ \E keyPair \in {multikey.keyPair} \cup OtherKeyPairs, m \in Messages :
          LET verifier == Multikey_constructor(MK_ID, MK_CONTROLLER, keyPair).val
              r == Multikey_verify(verifier, sig.sig, m)
          IN last' = [op |-> "verify", verifier |-> verifier, m |-> m,
                      err |-> r.err, b |-> r.b]
    /\ UNCHANGED <<proofVars, keyVars, signVars>>

SignNext ==
    \/ NewMultikey
    \/ MultikeySign
    \/ MultikeyVerify

SignSpec == KeyInit /\ [][SignNext]_vars

(***************************************************************************)
(* Properties of the key layer                                             *)
(***************************************************************************)
\* the scalar a constructor argument denotes (-1: none)
seedScalar(seed) ==
    CASE seed.t = "bytes" /\ Len(seed.b) = PRIVATE_KEY_LENGTH -> toSecret(seed.b)
      [] seed.t = "bigint" -> seed.v
      [] OTHER -> -1

ValidScalars == 1 .. (CURVE.n - 1)

\* C7: for every valid scalar d, computePublicKey succeeds and returns a key
\* with prefix 0x02 and the x coordinate of d*G; the held scalar stays d when
\* d*G has even y and becomes n - d when it has odd y.
C7_ComputePublicKeyEven ==
    (last.op = "computePublicKey" /\ heldScalar(last.before) \in ValidScalars) =>
        LET d == heldScalar(last.before)
            Q == scalarMult(d)
        IN /\ last.err = NoError
           /\ pk # Nil
           /\ PublicKey_prefix(pk) = EVEN_PREFIX
           /\ PublicKey_x(pk) = toBytes(Q.x, XONLY_LENGTH)
           /\ heldScalar(sk) = IF Q.y % 2 = 0 THEN d ELSE CURVE.n - d

\* C8: a PrivateKey constructor succeeds only for a value d with 1 <= d < n,
\* so every PrivateKey object that exists holds a scalar in [1, n-1].
C8_PrivateKeyInRange ==
    /\ (last.op = "newPrivateKey" /\ last.err = NoError) =>
            seedScalar(last.seed) \in ValidScalars
    /\ sk # Nil => heldScalar(sk) \in ValidScalars
    /\ (kp # Nil /\ kp.privateKey # Nil) => heldScalar(kp.privateKey) \in ValidScalars

\* a PublicKey object in its documented form: 33 bytes, prefix 0x02
WellFormedPublicKey(pub) ==
    /\ Len(PublicKey_compressed(pub)) = COMPRESSED_LENGTH
    /\ PublicKey_prefix(pub) = EVEN_PREFIX

\* C9: every PublicKey that exists is 33 bytes with prefix 0x02: a 32-byte
\* input x is stored as 0x02 || x, a 33-byte input with prefix 0x03 is
\* rejected, and no input of another length or prefix produces a PublicKey.
C9_PublicKeyEvenCompressed ==
    /\ pk # Nil => WellFormedPublicKey(pk)
    /\ (kp # Nil /\ kp.publicKey # Nil) => WellFormedPublicKey(kp.publicKey)
    /\ last.op = "newPublicKey" =>
        LET n == Len(last.input)
        IN /\ n = XONLY_LENGTH =>
                (last.err = NoError /\ PublicKey_compressed(pk) = <<EVEN_PREFIX>> \o last.input)
           /\ (n = COMPRESSED_LENGTH /\ last.input[1] = ODD_PREFIX) => last.err # NoError
           /\ (n = COMPRESSED_LENGTH /\ last.input[1] # EVEN_PREFIX) => last.err # NoError
           /\ n \notin {XONLY_LENGTH, COMPRESSED_LENGTH} => last.err # NoError

\* the PublicKey of the pair is the one its PrivateKey derives
Consistent(keyPair) ==
    LET d == computePublicKey(keyPair.privateKey)
    IN /\ d.err = NoError
       /\ PublicKey_equals(d.val, keyPair.publicKey)

\* C10: a KeyPair that holds both keys holds the public key derived from its
\* private key, after construction and after any use of the publicKey
\* setter; construction from a disagreeing pair fails.
C10_KeyPairConsistent ==
    (kp # Nil /\ kp.privateKey # Nil /\ kp.publicKey # Nil) => Consistent(kp)

(***************************************************************************)
(* Properties of the signing layer                                         *)
(***************************************************************************)
\* C3: a signer Multikey k signs every message with a 64-byte signature that
\* k itself verifies for that message, and that a Multikey k2 bound to a
\* different key pair does not verify.
C3_SignVerifyRoundTrip ==
    /\ (last.op = "sign" /\ multikey.keyPair.privateKey # Nil) =>
            (last.err = NoError /\ sig # Nil /\ sig.sig.len = SIGNATURE_LENGTH)
    /\ (last.op = "verify" /\ last.m = sig.m) =>
            IF PublicKey_equals(last.verifier.keyPair.publicKey, multikey.keyPair.publicKey)
            THEN last.err = NoError /\ last.b
            ELSE last.err = NoError /\ ~last.b

(***************************************************************************)
(* Multikey of the other snapshots                                         *)
(***************************************************************************)
\* src/src/crypto/private-key.ts:39   constructor(privateKey?); random is the
\* key utils.randomPrivateKey() draws when no bytes are given
PrivateKeyNoble_constructor(seed, random) ==
    LET bytes == IF seed.t = "bytes" THEN seed ELSE BytesSeed(random)
    IN IF ~isPrivate(bytes.b) THEN Throw("KeyPairError")
       ELSE Ok([variant |-> "noble", raw |-> bytes])

\* src/src/crypto/private-key.ts:86   toPublicKey
PrivateKeyNoble_toPublicKey(key) ==
    Derived(PublicKey33_constructor(pointFromScalar(key.raw.b)), key)

\* privateKey.toPublicKey() at src/src/crypto/key-pair.ts:40
KeyPairCrypto_constructor(privateKey, publicKey) ==
    IF privateKey = Nil /\ publicKey = Nil
    THEN Throw("KEYPAIR_CONSTRUCTOR_ERROR")
    ELSE IF publicKey # Nil
    THEN Ok([privateKey |-> privateKey, publicKey |-> publicKey])
    ELSE LET d == PrivateKeyNoble_toPublicKey(privateKey)
         IN IF d.err # NoError THEN Throw(d.err)
            ELSE Ok([privateKey |-> d.self, publicKey |-> d.val])

\* src/unnamed/part_005:63   constructor({ id, controller, keyPair, publicKey })
Multikey5_constructor(id, controller, keyPair, publicKey) ==
    IF keyPair = Nil /\ publicKey = Nil THEN Throw("Btc1KeyManagerError")
    ELSE IF keyPair # Nil /\ publicKey # Nil /\ ~PublicKey_equals(keyPair.publicKey, publicKey)
    THEN Throw("PUBLIC_KEY_MISMATCH")
    ELSE Ok([impl |-> "M5", id |-> id, controller |-> controller, keyPair |-> keyPair,
             publicKey |-> IF keyPair # Nil THEN keyPair.publicKey ELSE publicKey])

\* src/unnamed/part_005:84   get privateKey
Multikey5_privateKey(mk) ==
    IF mk.keyPair = Nil THEN Throw("PRIVATE_KEY_ERROR")
    ELSE KeyPair_privateKey(mk.keyPair)

\* src/unnamed/part_005:92   get publicKey
Multikey5_publicKey(mk) ==
    LET privateKey == Multikey5_privateKey(mk)
    IN IF privateKey.err # NoError THEN Throw(privateKey.err)
       ELSE IF mk.publicKey = Nil THEN Throw("PUBLIC_KEY_ERROR")
       ELSE PublicKey33_constructor(PublicKey_compressed(mk.publicKey))

\* src/unnamed/part_005:104   sign(hashb)
Multikey5_sign(mk, hashb, aux) ==
    LET privateKey == Multikey5_privateKey(mk)
    IN IF privateKey.err # NoError THEN Throw(privateKey.err)
       ELSE schnorr_sign(hashb, privateKey.val.raw.b, aux)

\* src/unnamed/part_005:114   verify(message, signature)
Multikey5_verify(mk, message, signature) ==
    LET publicKey == Multikey5_publicKey(mk)
    IN IF publicKey.err # NoError THEN [err |-> publicKey.err, b |-> FALSE]
       ELSE schnorr_verify(signature, message, PublicKey_x(publicKey.val))

\* src/unnamed/part_000:162   constructor({ id, controller, privateKey, publicKey })
\* with raw key bytes; schnorr.getPublicKey gives the x-only key
Multikey0_constructor(id, controller, privateKey, publicKey) ==
    IF privateKey.t # "bytes" /\ publicKey.t # "bytes" THEN Throw("Btc1KeyManagerError")
    ELSE IF privateKey.t = "bytes" /\ ~isPrivate(privateKey.b) THEN Throw("noble: invalid private key")
    ELSE Ok([impl |-> "M0", id |-> id, controller |-> controller, privateKey |-> privateKey,
             publicKey |-> IF privateKey.t = "bytes"
                           THEN BytesSeed(slice(pointFromScalar(privateKey.b), 1, 33))
                           ELSE publicKey])

\* src/unnamed/part_000:185   sign(data)
Multikey0_sign(mk, data, aux) ==
    IF mk.privateKey.t # "bytes" THEN Throw("Btc1KeyManagerError")
    ELSE schnorr_sign(data, mk.privateKey.b, aux)

\* src/unnamed/part_000:200   verify(message, signature)
Multikey0_verify(mk, message, signature) ==
    schnorr_verify(signature, message, mk.publicKey.b)

\* this.multikey.sign(hash) of the instance's class
multikey_sign(mk, data, aux) ==
    CASE mk.impl = "M4" -> Multikey_sign(mk, data, aux)
      [] mk.impl = "M5" -> Multikey5_sign(mk, data, aux)
      [] OTHER -> Multikey0_sign(mk, data, aux)

\* this.multikey.verify(first, second) of the instance's class: the two
\* arguments in the order the caller passes them
multikey_verify(mk, first, second) ==
    CASE mk.impl = "M4" -> Multikey_verify(mk, first, second)
      [] mk.impl = "M5" -> Multikey5_verify(mk, first, second)
      [] OTHER -> Multikey0_verify(mk, first, second)

(***************************************************************************)
(* JavaScript values and objects of the proof layer                        *)
(*   an object is a function from property names to values; a string is a  *)
(*   sequence of tokens wrapped by Str                                     *)
(***************************************************************************)
Absent == [absent |-> TRUE]          \* the object has no such property
Undefined == [undefined |-> TRUE]    \* the property is there and holds undefined
Str(tokens) == [str |-> tokens]
Arr(tokens) == [arr |-> tokens]
Obj(object) == [obj |-> object]
Num(n) == [num |-> n]
Null == [null |-> TRUE]

isObj(v) == "obj" \in DOMAIN v
\* typeof v: null and arrays are 'object'
typeof(v) ==
    CASE isObj(v) \/ "arr" \in DOMAIN v \/ v = Null -> "object"
      [] "str" \in DOMAIN v -> "string"
      [] "num" \in DOMAIN v -> "number"
      [] OTHER -> "undefined"
\* neither undefined nor a missing property (what ?? and JSON.stringify test)
isDefined(v) == v # Absent /\ v # Undefined
\* JavaScript truthiness of a property value
truthy(v) == isDefined(v) /\ v # Str(<< >>) /\ v # Null /\ v # Num(0)

\* object[key]
get(object, key) == IF key \in DOMAIN object THEN object[key] ELSE Absent
\* value.key of a value that is neither null nor undefined: a property of an
\* object, undefined on an array, a string or a number
member(value, key) == IF isObj(value) THEN get(value.obj, key) ELSE Absent
\* object[key] = value   and   { ...object, [key]: value }
set(object, key, value) ==
    [k \in DOMAIN object \cup {key} |-> IF k = key THEN value ELSE object[k]]

\* property names in the order Object.keys(obj).sort() gives them
KeyOrder ==
    <<"@context", "@type", "challenge", "cryptosuite", "domain", "id", "proof",
      "proofPurpose", "proofValue", "type", "verificationMethod">>

RECURSIVE jsonMembers(_)
\* JSON text of an object with sorted keys, as the list of its members:
\* JSON.stringify leaves out the properties that hold undefined
jsonMembers(object) ==
    LET written(key) == isDefined(get(object, key))
        keys == SelectSeq(KeyOrder, written)
    IN [i \in 1 .. Len(keys) |->
           [k |-> keys[i],
            v |-> IF isObj(get(object, keys[i]))
                  THEN Obj(jsonMembers(get(object, keys[i]).obj))
                  ELSE get(object, keys[i])]]

\* jcs.canonicalize(object)  (@web5/crypto): JSON.stringify of the object with
\* its keys sorted
jcs_canonicalize(object) == [json |-> jsonMembers(object)]

RECURSIVE definedProperties(_)
\* the properties JSON.stringify writes: those holding undefined are left out
definedProperties(object) ==
    LET keys == {k \in DOMAIN object : isDefined(object[k])}
    IN [k \in keys |-> IF isObj(object[k]) THEN Obj(definedProperties(object[k].obj))
                       ELSE object[k]]

\* new TextEncoder().encode(JSON.stringify(object))
JSON_stringify(object) == [utf8 |-> "json", text |-> Obj(definedProperties(object))]

\* JSON.parse(new TextDecoder().decode(documentBytes)): the value the text denotes
JSON_parse(documentBytes) == documentBytes.text

\* base58btc.encode(bytes): the multibase string 'z...' of the bytes
base58btc_encode(bytes) == [b58 |-> bytes]

\* base58btc.decode(string): throws unless the string is base58btc multibase
base58btc_decode(v) ==
    IF "b58" \in DOMAIN v THEN Ok(v.b58) ELSE Throw("multibase: unable to decode")

HASH_LENGTH == 32

\* sha256(config || document): an ideal hash of the two canonical texts
sha256(canonicalConfig, canonicalDocument) ==
    [len |-> HASH_LENGTH, kind |-> "hash",
     body |-> [config |-> canonicalConfig, document |-> canonicalDocument]]

\* Buffer.from(bytes).toString('hex')
toHex(bytes) == [len |-> 2 * bytes.len, kind |-> "hex", body |-> bytes]

(***************************************************************************)
(* Cryptosuite (src/unnamed/part_004:47); every method is awaited by its   *)
(* caller, and an operator gives the outcome of the whole call             *)
(***************************************************************************)
DATA_INTEGRITY_PROOF == <<"DataIntegrityProof">>
BIP340_JCS_2025 == <<"bip-340-", "jcs", "-2025">>
SCHNORR_SECP256K1_JCS_2025 == <<"schnorr-secp256k1-", "jcs", "-2025">>

\* constructor({ cryptosuite, multikey })
Cryptosuite_constructor(cryptosuite, mk) ==
    [impl |-> "DI", type |-> DATA_INTEGRITY_PROOF, cryptosuite |-> cryptosuite,
     multikey |-> mk]

\* this.cryptosuite.includes('rdfc')
includesRdfc(suite) == \E i \in 1 .. Len(suite.cryptosuite) : suite.cryptosuite[i] = "rdfc"

\* canonicalize(object) of an instance whose algorithm is 'JCS'
Cryptosuite_canonicalize(suite, object) == jcs_canonicalize(object)

\* options.type ?? options['@type']
typeOf(opts) ==
    IF isDefined(get(opts, "type")) THEN get(opts, "type") ELSE get(opts, "@type")

\* transformDocument({ document, options })
Cryptosuite_transformDocument(suite, doc, opts) ==
    IF typeOf(opts) # Str(suite.type)
    THEN Throw("PROOF_VERIFICATION_ERROR: Type mismatch")
    ELSE IF get(opts, "cryptosuite") # Str(suite.cryptosuite)
    THEN Throw("PROOF_VERIFICATION_ERROR: Cryptosuite mismatch")
    ELSE Ok(Cryptosuite_canonicalize(suite, doc))

\* generateHash that concatenates the document before the configuration
Cryptosuite_generateHash_documentFirst(canonicalConfig, canonicalDocument) ==
    sha256(canonicalDocument, canonicalConfig)

\* generateHash({ canonicalConfig, canonicalDocument }): the sha256 bytes
Cryptosuite_generateHash(canonicalConfig, canonicalDocument) ==
    sha256(canonicalConfig, canonicalDocument)

\* proofConfiguration that checks the type only
Cryptosuite_proofConfiguration_typeOnly(suite, opts) ==
    IF typeOf(opts) # Str(suite.type)
    THEN Throw("PROOF_GENERATION_ERROR: Mismatch type")
    ELSE Ok(Cryptosuite_canonicalize(suite, opts))

\* proofConfiguration({ options })
Cryptosuite_proofConfiguration(suite, opts) ==
    IF typeOf(opts) # Str(suite.type)
    THEN Throw("PROOF_GENERATION_ERROR: Mismatch type")
    ELSE IF get(opts, "cryptosuite") # Str(suite.cryptosuite)
    THEN Throw("PROOF_GENERATION_ERROR: Mismatch on cryptosuite")
    ELSE Ok(Cryptosuite_canonicalize(suite, opts))

\* proofSerialization that signs without looking at the verification method
Cryptosuite_proofSerialization_unchecked(suite, hashBytes, opts, aux) ==
    multikey_sign(suite.multikey, hashBytes, aux)

\* proofSerialization({ hashBytes, options })
Cryptosuite_proofSerialization(suite, hashBytes, opts, aux) ==
    IF get(opts, "verificationMethod") # Str(Multikey_fullId(suite.multikey))
    THEN Throw("PROOF_SERIALIZATION_ERROR: Mismatch on fullId")
    ELSE multikey_sign(suite.multikey, hashBytes, aux)

\* proofVerification({ hashBytes, proofBytes, options })
Cryptosuite_proofVerification(suite, hashBytes, proofBytes, opts) ==
    IF get(opts, "verificationMethod") # Str(Multikey_fullId(suite.multikey))
    THEN [err |-> "PROOF_VERIFICATION_ERROR: Mismatch on fullId", b |-> FALSE]
    ELSE multikey_verify(suite.multikey, hashBytes, proofBytes)

\* outcome of createProof: the error or the proof, the caller's options object
\* after the call, and whether the Multikey made a signature
Created(err, proof, opts, signed) ==
    [err |-> err, val |-> proof, options |-> opts, signed |-> signed]

\* createProof({ document, options })
Cryptosuite_createProof(suite, doc, opts, aux) ==
    LET context == get(doc, "@context")
        \* with a context the proof is a copy, without one it is the options object
        proof == IF truthy(context) THEN set(opts, "@context", context) ELSE opts
        canonicalConfig == Cryptosuite_proofConfiguration(suite, proof)
        canonicalDocument == Cryptosuite_transformDocument(suite, doc, opts)
        hashBytes == Cryptosuite_generateHash(canonicalConfig.val, canonicalDocument.val)
        \* the statements after  await this.proofSerialization(...)
        then(proofBytes) ==
            LET signedProof ==
                    set(set(proof, "proofValue", base58btc_encode(proofBytes.val)),
                        IF includesRdfc(suite) THEN "@type" ELSE "type", Str(suite.type))
            IN IF proofBytes.err # NoError THEN Created(proofBytes.err, Nil, opts, FALSE)
               ELSE Created(NoError, signedProof,
                            IF truthy(context) THEN opts ELSE signedProof, TRUE)
    IN IF canonicalConfig.err # NoError THEN Created(canonicalConfig.err, Nil, opts, FALSE)
       ELSE IF canonicalDocument.err # NoError
       THEN Created(canonicalDocument.err, Nil, opts, FALSE)
       ELSE then(Cryptosuite_proofSerialization(suite, hashBytes, opts, aux))

\* a result that carries the document whatever the outcome
VerificationResult_always(verified, secure) ==
    [verified |-> verified, verifiedDocument |-> secure]

\* the object verifyProof returns
VerificationResult(verified, secure) ==
    [verified |-> verified, verifiedDocument |-> IF verified THEN secure ELSE Undefined]

\* verifyProof(secure)
Cryptosuite_verifyProof(suite, secure) ==
    LET insecure == set(secure, "proof", Undefined)
        proof == get(secure, "proof")
        opts == set(proof.obj, "proofValue", Undefined)
        proofBytes == base58btc_decode(get(proof.obj, "proofValue"))
        canonicalDocument == Cryptosuite_transformDocument(suite, insecure, opts)
        canonicalConfig == Cryptosuite_proofConfiguration(suite, opts)
        hashBytes == Cryptosuite_generateHash(canonicalConfig.val, canonicalDocument.val)
        \* the statements after  await this.proofVerification(...)
        then(verified) ==
            IF verified.err # NoError THEN Throw(verified.err)
            ELSE Ok(VerificationResult(verified.b, secure))
    IN \* secure.proof.proofValue of a document without a proof
       IF ~isObj(proof) THEN Throw("TypeError: Cannot read properties of undefined")
       ELSE IF proofBytes.err # NoError THEN Throw(proofBytes.err)
       ELSE IF canonicalDocument.err # NoError THEN Throw(canonicalDocument.err)
       ELSE IF canonicalConfig.err # NoError THEN Throw(canonicalConfig.err)
       ELSE then(Cryptosuite_proofVerification(suite, hashBytes, proofBytes.val, opts))

(***************************************************************************)
(* JcsCryptosuite (src/src/jcs-cryptosuite.ts:19)                          *)
(***************************************************************************)
\* constructor(multikey)
JcsCryptosuite_constructor(mk) ==
    [impl |-> "JCS", type |-> DATA_INTEGRITY_PROOF,
     cryptosuite |-> SCHNORR_SECP256K1_JCS_2025, multikey |-> mk]

\* transformDocument(unsecuredDocument, options)
JcsCryptosuite_transformDocument(suite, doc, opts) ==
    IF get(opts, "type") # Str(suite.type) \/ get(opts, "cryptosuite") # Str(suite.cryptosuite)
    THEN Throw("PROOF VERIFICATION ERROR")
    ELSE Ok(jcs_canonicalize(doc))

\* generateHash(canonicalProofConfig, canonicalDocument): the hash as a hex string
JcsCryptosuite_generateHash(canonicalProofConfig, canonicalDocument) ==
    toHex(sha256(canonicalProofConfig, canonicalDocument))

\* proofConfiguration(options)
JcsCryptosuite_proofConfiguration(suite, opts) ==
    IF get(opts, "type") # Str(suite.type) \/ get(opts, "cryptosuite") # Str(suite.cryptosuite)
    THEN Throw("PROOF_GENERATION_ERROR")
    ELSE Ok(jcs_canonicalize(opts))

\* proofSerialization(hashData, options)
JcsCryptosuite_proofSerialization(suite, hashData, opts, aux) ==
    IF get(opts, "verificationMethod") # Str(Multikey_fullId(suite.multikey))
    THEN Throw("JcsCryptoSuiteError: does not match verificationMethod")
    ELSE multikey_sign(suite.multikey, hashData, aux)

\* proofVerification(hashData, proofBytes, options)
JcsCryptosuite_proofVerification(suite, hashData, proofBytes, opts) ==
    IF get(opts, "verificationMethod") # Str(Multikey_fullId(suite.multikey))
    THEN [err |-> "Btc1KeyManagerError: does not match expected verificationMethod",
          b |-> FALSE]
    ELSE multikey_verify(suite.multikey, hashData, proofBytes)

\* createProof(unsecuredDocument, proofOptions): the proof is the options object
JcsCryptosuite_createProof(suite, doc, opts, aux) ==
    LET context == get(doc, "@context")
        proof == IF truthy(context) THEN set(opts, "@context", context) ELSE opts
        transformedData == JcsCryptosuite_transformDocument(suite, doc, proof)
        proofConfig == JcsCryptosuite_proofConfiguration(suite, proof)
        hashData == JcsCryptosuite_generateHash(proofConfig.val, transformedData.val)
        \* the statements after  await this.proofSerialization(...)
        then(proofBytes) ==
            LET signedProof == set(proof, "proofValue", base58btc_encode(proofBytes.val))
            IN IF proofBytes.err # NoError THEN Created(proofBytes.err, Nil, proof, FALSE)
               ELSE Created(NoError, signedProof, signedProof, TRUE)
    IN IF transformedData.err # NoError THEN Created(transformedData.err, Nil, proof, FALSE)
       ELSE IF proofConfig.err # NoError THEN Created(proofConfig.err, Nil, proof, FALSE)
       ELSE then(JcsCryptosuite_proofSerialization(suite, hashData, proof, aux))

\* verifyProof(securedDocument)
JcsCryptosuite_verifyProof(suite, securedDocument) ==
    LET proof == get(securedDocument, "proof")
        transformedData == JcsCryptosuite_transformDocument(suite, securedDocument, proof.obj)
        proofConfig == JcsCryptosuite_proofConfiguration(suite, proof.obj)
        proofBytes == base58btc_decode(get(proof.obj, "proofValue"))
        hashData == JcsCryptosuite_generateHash(proofConfig.val, transformedData.val)
        \* the statements after  this.proofVerification(...)
        then(verified) ==
            IF verified.err # NoError THEN Throw(verified.err)
            ELSE Ok(VerificationResult(verified.b, securedDocument))
    IN \* options.type of a document without a proof
       IF ~isObj(proof) THEN Throw("TypeError: Cannot read properties of undefined")
       ELSE IF transformedData.err # NoError THEN Throw(transformedData.err)
       ELSE IF proofConfig.err # NoError THEN Throw(proofConfig.err)
       ELSE IF proofBytes.err # NoError THEN Throw(proofBytes.err)
       ELSE then(JcsCryptosuite_proofVerification(suite, hashData, proofBytes.val, proof.obj))

(***************************************************************************)
(* DataIntegrityProof (src/unnamed/part_003:13)                            *)
(***************************************************************************)
\* this.cryptosuite.createProof(...) of the instance's class
cryptosuite_createProof(suite, doc, opts, aux) ==
    IF suite.impl = "DI" THEN Cryptosuite_createProof(suite, doc, opts, aux)
    ELSE JcsCryptosuite_createProof(suite, doc, opts, aux)

\* this.cryptosuite.verifyProof(securedDocument) of the instance's class
cryptosuite_verifyProof(suite, securedDocument) ==
    IF suite.impl = "DI" THEN Cryptosuite_verifyProof(suite, securedDocument)
    ELSE JcsCryptosuite_verifyProof(suite, securedDocument)

\* outcome of addProof: the error or the returned document, the caller's
\* document and options objects after the call, whether a signature was made,
\* and the proof createProof returned
Added(err, returned, doc, opts, signed, proof) ==
    [err |-> err, val |-> returned, document |-> doc, options |-> opts, signed |-> signed,
     proof |-> proof]

\* a check of the three members that looks at the type only
lacksMember_typeOnly(type, verificationMethod, proofPurpose) == ~truthy(type)

\* !type || !verificationMethod || !proofPurpose
lacksMember(type, verificationMethod, proofPurpose) ==
    ~truthy(type) \/ ~truthy(verificationMethod) \/ ~truthy(proofPurpose)

\* addProof(inputDocument, options)
DataIntegrityProof_addProof(suite, inputDocument, opts, aux) ==
    LET \* the statements after  const proof = this.cryptosuite.createProof(...)
        then(created) ==
            LET proof == created.val
                domain == get(created.options, "domain")
                challenge == get(created.options, "challenge")
                securedDocument == set(inputDocument, "proof", Obj(proof))
                failed(err) ==
                    Added(err, Nil, inputDocument, created.options, created.signed, proof)
            IN IF created.err # NoError THEN failed(created.err)
               ELSE IF lacksMember(get(proof, "type"), get(proof, "verificationMethod"),
                                   get(proof, "proofPurpose"))
               THEN failed("PROOF_GENERATION_ERROR")
               ELSE IF truthy(domain) /\ domain # get(proof, "domain")
               THEN failed("PROOF_GENERATION_ERROR")
               ELSE IF truthy(challenge) /\ challenge # get(proof, "challenge")
               THEN failed("PROOF_GENERATION_ERROR")
               ELSE Added(NoError, securedDocument, securedDocument, created.options, TRUE,
                          proof)
    IN then(cryptosuite_createProof(suite, inputDocument, opts, aux))

\* outcome of DataIntegrityProof.verifyProof: the error or the result, and
\* whether this.cryptosuite.verifyProof was called
Verified(err, result, invoked) == [err |-> err, val |-> result, invoked |-> invoked]

\* a comparison with the expected purpose that accepts every purpose
purposeDiffers_never(expectedProofPurpose, proofPurpose) == FALSE

\* expectedProofPurpose && expectedProofPurpose !== proofPurpose
purposeDiffers(expectedProofPurpose, proofPurpose) ==
    truthy(expectedProofPurpose) /\ expectedProofPurpose # proofPurpose

\* a comparison with the supplied challenge that accepts every challenge
challengeDiffers_never(challenge, proofChallenge) == FALSE

\* challenge && challenge !== proofChallenge
challengeDiffers(challenge, proofChallenge) ==
    truthy(challenge) /\ challenge # proofChallenge

\* verifyProof({ mediaType, documentBytes, expectedProofPurpose, challenge })
DataIntegrityProof_verifyProof(suite, mediaType, documentBytes, expectedProofPurpose, challenge) ==
    LET securedDocument == JSON_parse(documentBytes)
        proof == member(securedDocument, "proof")
        type == member(proof, "type")
        proofPurpose == member(proof, "proofPurpose")
        proofVm == member(proof, "verificationMethod")
        proofChallenge == member(proof, "challenge")
        \* the statements after  this.cryptosuite.verifyProof(securedDocument)
        then(result) ==
            IF result.err # NoError THEN Verified(result.err, Nil, TRUE)
            ELSE Verified(NoError,
                          [verified |-> result.val.verified,
                           verifiedDocument |-> result.val.verifiedDocument,
                           mediaType |-> mediaType], TRUE)
    IN IF typeof(securedDocument) # "object" THEN Verified("PARSING_ERROR", Nil, FALSE)
       \* securedDocument.proof of null
       ELSE IF securedDocument = Null
       THEN Verified("TypeError: Cannot read properties of null", Nil, FALSE)
       ELSE IF typeof(proof) # "object" THEN Verified("PARSING_ERROR", Nil, FALSE)
       \* proof.type of null
       ELSE IF proof = Null
       THEN Verified("TypeError: Cannot read properties of null", Nil, FALSE)
       ELSE IF lacksMember(type, proofVm, proofPurpose)
       THEN Verified("PROOF_VERIFICATION_ERROR", Nil, FALSE)
       ELSE IF purposeDiffers(expectedProofPurpose, proofPurpose)
       THEN Verified("PROOF_VERIFICATION_ERROR", Nil, FALSE)
       ELSE IF challengeDiffers(challenge, proofChallenge)
       THEN Verified("INVALID_CHALLENGE_ERROR", Nil, FALSE)
       ELSE then(cryptosuite_verifyProof(suite, securedDocument.obj))

(***************************************************************************)
(* Proof layer: a caller secures a document and verifies it                *)
(***************************************************************************)
MaxSigns == 2

\* the object literal with the given properties; a property given as Absent
\* is not written
literal(properties) ==
    [k \in {key \in DOMAIN properties : properties[key] # Absent} |-> properties[k]]

\* the private key of the cryptosuite's signer
SignerSecret == toBytes(1, PRIVATE_KEY_LENGTH)
OtherSecret == toBytes(2, PRIVATE_KEY_LENGTH)

\* new Multikey({ id, controller, keyPair }) of src/unnamed/part_004 with a signer's key pair
SignerMultikey ==
    Multikey_constructor(MK_ID, MK_CONTROLLER,
        KeyPair_constructor(PrivateKeyFlip_constructor(BytesSeed(SignerSecret)).val, Nil).val).val

\* the same with a key pair that holds the public key only
VerifierMultikey ==
    Multikey_constructor(MK_ID, MK_CONTROLLER,
        KeyPair_constructor(Nil, SignerMultikey.keyPair.publicKey).val).val

\* new Multikey({ id, controller, keyPair }) of src/unnamed/part_005
SignerMultikey5 ==
    Multikey5_constructor(MK_ID, MK_CONTROLLER,
        KeyPairCrypto_constructor(PrivateKeyNoble_constructor(BytesSeed(SignerSecret), 1).val,
                                  Nil).val, Nil).val

\* new Multikey({ id, controller, privateKey }) of src/unnamed/part_000
SignerMultikey0 ==
    Multikey0_constructor(MK_ID, MK_CONTROLLER, BytesSeed(SignerSecret), UndefinedSeed).val

\* the cryptosuite instances: the Cryptosuite of src/unnamed/part_004 with the
\* Multikey of its own file and with the one of src/unnamed/part_005, and the
\* JcsCryptosuite with the Multikey of src/unnamed/part_000
Cryptosuites ==
    {Cryptosuite_constructor(BIP340_JCS_2025, mk) :
        mk \in {SignerMultikey, VerifierMultikey, SignerMultikey5}}
    \cup {JcsCryptosuite_constructor(SignerMultikey0)}

FULL_ID == Str(MK_CONTROLLER \o MK_ID)
OTHER_ID == Str(MK_CONTROLLER \o <<"#", "otherKey">>)
ASSERTION_METHOD == Str(<<"assertionMethod">>)
AUTHENTICATION == Str(<<"authentication">>)
CONTEXT == Arr(<<"https://w3id.org/security/data-integrity/v2">>)

\* proof options a caller passes
ProofOptions ==
    {literal("type" :> type @@ "@type" :> atType @@ "cryptosuite" :> Str(cryptosuite)
             @@ "verificationMethod" :> vm @@ "proofPurpose" :> proofPurpose) :
        type \in {Str(DATA_INTEGRITY_PROOF), Str(<<"Ed25519Signature2020">>), Absent},
        atType \in {Str(DATA_INTEGRITY_PROOF), Absent},
        cryptosuite \in {BIP340_JCS_2025, SCHNORR_SECP256K1_JCS_2025},
        vm \in {FULL_ID, OTHER_ID},
        proofPurpose \in {ASSERTION_METHOD, Absent}}

\* documents a caller passes
Documents ==
    {literal("@context" :> context @@ "id" :> Str(<<"urn:doc:", "1">>)) :
        context \in {CONTEXT, Absent}}

ProofInit ==
    /\ sk = Nil
    /\ pk = Nil
    /\ kp = Nil
    /\ multikey = Nil
    /\ sig = Nil
    /\ cs \in Cryptosuites
    /\ document = Nil
    /\ options = Nil
    /\ added = Nil
    /\ prov = "none"
    /\ signCount = 0
    /\ calls = Nil
    /\ last = [op |-> "init"]

\* the caller builds a document and proof options
Prepare ==
    /\ prov = "none"
    /\ \E doc \in Documents, opts \in ProofOptions :
          /\ document' = doc
          /\ options' = opts
    /\ prov' = "input"
    /\ last' = [op |-> "prepare"]
    /\ UNCHANGED <<keyVars, signVars, cs, calls, added, signCount>>

\* the caller receives a document secured elsewhere: its proof carries some
\* proof options and a signature by the holder of the signer's key
Receive ==
    /\ prov = "none"
    /\ \E doc \in Documents, opts \in ProofOptions :
          LET hash == IF cs.impl = "DI"
                      THEN Cryptosuite_generateHash(jcs_canonicalize(opts), jcs_canonicalize(doc))
                      ELSE JcsCryptosuite_generateHash(jcs_canonicalize(opts), jcs_canonicalize(doc))
              proof == set(opts, "proofValue",
                           base58btc_encode(schnorr_sign(hash, SignerSecret, 1).val))
          IN /\ document' = set(doc, "proof", Obj(proof))
             /\ options' = proof
    /\ prov' = "received"
    /\ last' = [op |-> "receive"]
    /\ UNCHANGED <<keyVars, signVars, cs, calls, added, signCount>>

\* cs.createProof(document, options)
CreateProof ==
    /\ prov = "input"
    /\ signCount < MaxSigns
    /\ \E aux \in 1 .. MaxAux :
          \E r \in {cryptosuite_createProof(cs, document, options, aux)} :
             /\ options' = r.options
             /\ signCount' = IF r.signed THEN signCount + 1 ELSE signCount
             /\ last' = [op |-> "createProof", options |-> options, err |-> r.err,
                         signed |-> r.signed, proof |-> r.val]
    /\ UNCHANGED <<keyVars, signVars, cs, calls, document, added, prov>>

\* new DataIntegrityProof(cs).addProof(document, options)
AddProof ==
    /\ prov = "input"
    /\ signCount < MaxSigns
    /\ \E aux \in 1 .. MaxAux :
          \E r \in {DataIntegrityProof_addProof(cs, document, options, aux)} :
             /\ document' = r.document
             /\ options' = r.options
             /\ signCount' = IF r.signed THEN signCount + 1 ELSE signCount
             /\ added' = IF r.err = NoError
                         THEN [document |-> document, options |-> options] ELSE added
             /\ prov' = IF r.err = NoError THEN "secured" ELSE prov
             /\ last' = [op |-> "addProof", options |-> options, err |-> r.err,
                         signed |-> r.signed]
    /\ UNCHANGED <<keyVars, signVars, cs, calls>>

\* the proof object of the secured document is the options object unless
\* createProof copied it (src/unnamed/part_004:86, src/src/jcs-cryptosuite.ts:30)
proofIsOptions == cs.impl = "JCS" \/ ~truthy(get(added.document, "@context"))

\* somebody changes the secured document: a byte of the body, a byte of the
\* signature inside proofValue, or the multibase prefix of proofValue
Tamper ==
    /\ prov = "secured"
    /\ \E kind \in {"body", "signature", "prefix"} :
          LET proof == document["proof"].obj
              signature == proof["proofValue"].b58
              changed ==
                  CASE kind = "signature" ->
                          set(proof, "proofValue",
                              base58btc_encode([signature EXCEPT !.body.r = 0]))
                    [] kind = "prefix" -> set(proof, "proofValue", Str(<<"y", signature>>))
                    [] OTHER -> proof
          IN /\ document' = IF kind = "body" THEN set(document, "id", Str(<<"urn:doc:", "2">>))
                            ELSE set(document, "proof", Obj(changed))
             /\ options' = IF proofIsOptions THEN changed ELSE options
             /\ prov' = kind
    /\ last' = [op |-> "tamper"]
    /\ UNCHANGED <<keyVars, signVars, cs, calls, added, signCount>>

\* the hash verifyProof hands to proofVerification
\* (src/unnamed/part_004:118-133, src/src/jcs-cryptosuite.ts:44-47)
hashChecked(suite, secure) ==
    LET proof == get(secure, "proof").obj
    IN IF suite.impl = "DI"
       THEN Cryptosuite_generateHash(
                Cryptosuite_proofConfiguration(suite, set(proof, "proofValue", Undefined)).val,
                Cryptosuite_transformDocument(suite, set(secure, "proof", Undefined),
                                              set(proof, "proofValue", Undefined)).val)
       ELSE JcsCryptosuite_generateHash(
                JcsCryptosuite_proofConfiguration(suite, proof).val,
                JcsCryptosuite_transformDocument(suite, secure, proof).val)

\* cs.verifyProof(document)
VerifyProof ==
    /\ prov # "none"
    /\ \E r \in {cryptosuite_verifyProof(cs, document)} :
          last' = [op |-> "verifyProof", err |-> r.err, res |-> r.val,
                   hash |-> IF r.err = NoError THEN hashChecked(cs, document) ELSE Nil]
    /\ UNCHANGED <<keyVars, signVars, proofVars>>

\* new DataIntegrityProof(cs).verifyProof({ mediaType, documentBytes, expectedProofPurpose })
DataIntegrityProofVerifyProof ==
    /\ prov # "none"
    /\ \E expectedProofPurpose \in {ASSERTION_METHOD, AUTHENTICATION} :
          \E r \in {DataIntegrityProof_verifyProof(cs, Str(<<"application/json">>),
                        JSON_stringify(document), expectedProofPurpose, Absent)} :
             last' = [op |-> "DataIntegrityProof.verifyProof", err |-> r.err, res |-> r.val]
    /\ UNCHANGED <<keyVars, signVars, proofVars>>

\* cs.transformDocument(document, options), called directly
TransformDocument ==
    /\ prov # "none"
    /\ LET r == IF cs.impl = "DI" THEN Cryptosuite_transformDocument(cs, document, options)
                ELSE JcsCryptosuite_transformDocument(cs, document, options)
       IN last' = [op |-> "transformDocument", err |-> r.err]
    /\ UNCHANGED <<keyVars, signVars, proofVars>>

\* cs.proofConfiguration(options), called directly
ProofConfiguration ==
    /\ prov # "none"
    /\ LET r == IF cs.impl = "DI" THEN Cryptosuite_proofConfiguration(cs, options)
                ELSE JcsCryptosuite_proofConfiguration(cs, options)
       IN last' = [op |-> "proofConfiguration", err |-> r.err]
    /\ UNCHANGED <<keyVars, signVars, proofVars>>

\* cs.generateHash(canonicalize(options), canonicalize(document))
hashOf(opts, doc) ==
    IF cs.impl = "DI"
    THEN Cryptosuite_generateHash(jcs_canonicalize(opts), jcs_canonicalize(doc))
    ELSE JcsCryptosuite_generateHash(jcs_canonicalize(opts), jcs_canonicalize(doc))

\* cs.generateHash(canonicalConfig, canonicalDocument), called directly with
\* two canonical texts in either order
GenerateHash ==
    /\ prov # "none"
    /\ \E texts \in {<<jcs_canonicalize(options), jcs_canonicalize(document)>>,
                      <<jcs_canonicalize(document), jcs_canonicalize(options)>>} :
          last' = [op |-> "generateHash", canonicalConfig |-> texts[1],
                   canonicalDocument |-> texts[2],
                   hash |-> IF cs.impl = "DI"
                            THEN Cryptosuite_generateHash(texts[1], texts[2])
                            ELSE JcsCryptosuite_generateHash(texts[1], texts[2])]
    /\ UNCHANGED <<keyVars, signVars, proofVars>>

\* cs.proofSerialization(hash, options), called directly
ProofSerialization ==
    /\ prov # "none"
    /\ signCount < MaxSigns
    /\ \E aux \in 1 .. MaxAux :
          \E r \in {IF cs.impl = "DI"
                     THEN Cryptosuite_proofSerialization(cs, hashOf(options, document), options, aux)
                     ELSE JcsCryptosuite_proofSerialization(cs, hashOf(options, document),
                                                            options, aux)} :
             /\ signCount' = IF r.err = NoError THEN signCount + 1 ELSE signCount
             /\ last' = [op |-> "proofSerialization", err |-> r.err,
                         signed |-> (r.err = NoError)]
    /\ UNCHANGED <<keyVars, signVars, cs, calls, document, options, added, prov>>

\* cs.proofVerification(hash, proofBytes, options), called directly with a
\* signature over the hash by the signer's key or by another key
ProofVerification ==
    /\ prov # "none"
    /\ \E secret \in {SignerSecret, OtherSecret} :
          \E proofBytes \in {schnorr_sign(hashOf(options, document), secret, 1).val} :
          \E r \in {IF cs.impl = "DI"
                     THEN Cryptosuite_proofVerification(cs, hashOf(options, document),
                                                        proofBytes, options)
                     ELSE JcsCryptosuite_proofVerification(cs, hashOf(options, document),
                                                           proofBytes, options)} :
             last' = [op |-> "proofVerification", err |-> r.err, b |-> r.b,
                      signer |-> (secret = SignerSecret)]
    /\ UNCHANGED <<keyVars, signVars, proofVars>>

ProofNext ==
    \/ Prepare
    \/ Receive
    \/ CreateProof
    \/ AddProof
    \/ Tamper
    \/ VerifyProof
    \/ DataIntegrityProofVerifyProof
    \/ TransformDocument
    \/ ProofConfiguration
    \/ GenerateHash
    \/ ProofSerialization
    \/ ProofVerification

ProofSpec == ProofInit /\ [][ProofNext]_vars

(***************************************************************************)
(* Properties of the proof layer                                           *)
(***************************************************************************)
\* options.verificationMethod differs from multikey.fullId()
vmDiffers(opts) == get(opts, "verificationMethod") # Str(Multikey_fullId(cs.multikey))

\* options.type and options.cryptosuite equal the instance's
typeAndSuiteEqual(opts) ==
    get(opts, "type") = Str(cs.type) /\ get(opts, "cryptosuite") = Str(cs.cryptosuite)

\* the type and cryptosuite the instance's class reads from the options equal the instance's
readTypeAndSuiteEqual(opts) ==
    /\ get(opts, "cryptosuite") = Str(cs.cryptosuite)
    /\ IF cs.impl = "DI" THEN typeOf(opts) = Str(cs.type) ELSE get(opts, "type") = Str(cs.type)

VmMismatchErrors ==
    {"PROOF_SERIALIZATION_ERROR: Mismatch on fullId", "PROOF_VERIFICATION_ERROR: Mismatch on fullId",
     "JcsCryptoSuiteError: does not match verificationMethod",
     "Btc1KeyManagerError: does not match expected verificationMethod"}

TypeMismatchErrors ==
    {"PROOF_VERIFICATION_ERROR: Type mismatch", "PROOF_VERIFICATION_ERROR: Cryptosuite mismatch",
     "PROOF_GENERATION_ERROR: Mismatch type", "PROOF_GENERATION_ERROR: Mismatch on cryptosuite",
     "PROOF VERIFICATION ERROR", "PROOF_GENERATION_ERROR"}

\* the proof of the caller's document, when it has one
proofOf(doc) == get(doc, "proof")

\* C1: for options whose type, cryptosuite and verificationMethod match the
\* instance and its signer Multikey, verifying the document addProof returned
\* yields verified == true and verifiedDocument equal to the document with
\* that proof attached.
C1_AddProofVerifies ==
    (last.op = "verifyProof" /\ prov = "secured"
        /\ typeAndSuiteEqual(added.options) /\ ~vmDiffers(added.options)) =>
            /\ last.err = NoError
            /\ last.res.verified
            /\ last.res.verifiedDocument = set(added.document, "proof", proofOf(document))

\* C2: after a proof has been created, changing a byte of the signature in
\* proofValue or a byte of the document body makes verifyProof return
\* verified == false, and it does not throw.
C2_TamperedIsFalse ==
    (last.op = "verifyProof" /\ prov \in {"body", "signature"}) =>
        (last.err = NoError /\ ~last.res.verified)

\* C4 as stated: whenever options.verificationMethod differs from
\* multikey.fullId(), proofSerialization and createProof fail with the
\* verification-method-mismatch error without signing, and proofVerification
\* and verifyProof fail with that error.
C4_VmMismatchError ==
    /\ (last.op = "proofSerialization" /\ vmDiffers(options)) =>
            (last.err \in VmMismatchErrors /\ ~last.signed)
    /\ (last.op = "createProof" /\ vmDiffers(last.options)) =>
            (last.err \in VmMismatchErrors /\ ~last.signed)
    /\ (last.op = "proofVerification" /\ vmDiffers(options)) => last.err \in VmMismatchErrors
    /\ (last.op = "verifyProof" /\ isObj(proofOf(document)) /\ vmDiffers(proofOf(document).obj)) =>
            last.err \in VmMismatchErrors

\* C4 (amended): whenever options.verificationMethod differs from
\* multikey.fullId(), proofSerialization and proofVerification fail with the
\* verification-method-mismatch error and nothing is signed; createProof fails
\* without signing and verifyProof fails without a result, with that error
\* when the earlier steps pass (the type and cryptosuite checks, and for
\* verifyProof the decoding of proofValue) and with the earlier step's error
\* otherwise.
C4_VmMismatchFails ==
    /\ (last.op = "proofSerialization" /\ vmDiffers(options)) =>
            (last.err \in VmMismatchErrors /\ ~last.signed)
    /\ (last.op = "createProof" /\ vmDiffers(last.options)) =>
            /\ last.err # NoError
            /\ ~last.signed
            /\ readTypeAndSuiteEqual(last.options) => last.err \in VmMismatchErrors
            /\ ~readTypeAndSuiteEqual(last.options) => last.err \in TypeMismatchErrors
    /\ (last.op = "proofVerification" /\ vmDiffers(options)) => last.err \in VmMismatchErrors
    /\ (last.op = "verifyProof" /\ isObj(proofOf(document)) /\ vmDiffers(proofOf(document).obj)) =>
            LET proof == proofOf(document).obj
            IN /\ last.err # NoError
               /\ (readTypeAndSuiteEqual(proof)
                        /\ base58btc_decode(get(proof, "proofValue")).err = NoError) =>
                            last.err \in VmMismatchErrors

\* createProof was called with a verificationMethod other than fullId() and
\* options of the right type and cryptosuite, and failed with the mismatch error
C4_Witness ==
    /\ last.op = "createProof"
    /\ vmDiffers(last.options)
    /\ readTypeAndSuiteEqual(last.options)
    /\ last.err \in VmMismatchErrors
    /\ ~last.signed

\* the object a verifyProof call was given: the caller's document, or what
\* DataIntegrityProof.verifyProof parsed from its bytes
passedIn ==
    IF last.op = "verifyProof" THEN document ELSE JSON_parse(JSON_stringify(document)).obj

C6_TypeAndSuiteChecked ==
    /\ (last.op \in {"proofConfiguration", "transformDocument"} /\ ~typeAndSuiteEqual(options)) =>
            last.err \in TypeMismatchErrors
    /\ (last.op = "createProof" /\ ~typeAndSuiteEqual(last.options)) => ~last.signed
    /\ (last.op = "verifyProof" /\ isObj(proofOf(document))
            /\ ~typeAndSuiteEqual(proofOf(document).obj)) => last.err # NoError

\* C6 (amended): proofConfiguration and transformDocument fail with a
\* type/cryptosuite mismatch error unless the type read from the options and
\* options.cryptosuite equal the instance's, where Cryptosuite reads
\* options.type ?? options['@type'] and JcsCryptosuite reads options.type;
\* createProof never signs and verifyProof never returns a result for options
\* whose type so read or whose cryptosuite differs.
C6_ReadTypeAndSuiteChecked ==
    /\ (last.op \in {"proofConfiguration", "transformDocument"}) =>
            IF readTypeAndSuiteEqual(options) THEN last.err = NoError
            ELSE last.err \in TypeMismatchErrors
    /\ (last.op = "createProof" /\ ~readTypeAndSuiteEqual(last.options)) =>
            (last.err \in TypeMismatchErrors /\ ~last.signed)
    /\ (last.op = "verifyProof" /\ isObj(proofOf(document))
            /\ ~readTypeAndSuiteEqual(proofOf(document).obj)) => last.err # NoError

\* proofConfiguration was called with options of another cryptosuite and failed
C6_Witness ==
    /\ last.op = "proofConfiguration"
    /\ get(options, "cryptosuite") # Str(cs.cryptosuite)
    /\ last.err \in TypeMismatchErrors

(***************************************************************************)
(* Multibase form of public keys and verification methods                  *)
(***************************************************************************)
\* src/src/keys/constants.ts:2 and src/src/di-bip340/multikey/utils.ts:8
SECP256K1_XONLY_PREFIX == <<225, 74>>

\* prefix.every((b, i) => b === SECP256K1_XONLY_PREFIX[i]): every element the
\* prefix has is compared, so an empty prefix passes
everyMatchesPrefix(prefix) ==
    \A i \in 1 .. Len(prefix) :
        i <= Len(SECP256K1_XONLY_PREFIX) /\ prefix[i] = SECP256K1_XONLY_PREFIX[i]

\* PublicKeyUtils.encode (src/src/keys/public-key.ts:192), the same text as
\* MultikeyUtils.encode (src/src/di-bip340/multikey/utils.ts:55)
PublicKeyUtils_encode(xOnlyPublicKeyBytes) ==
    IF Len(xOnlyPublicKeyBytes) # XONLY_LENGTH
    THEN Throw("x-only public key must be 32 bytes")
    ELSE Ok(base58btc_encode(SECP256K1_XONLY_PREFIX \o xOnlyPublicKeyBytes))

\* PublicKeyUtils.decode (src/src/keys/public-key.ts:177), the same text as
\* MultikeyUtils.decode (src/src/di-bip340/multikey/utils.ts:41): the bytes
\* returned are the decoded bytes as they are
PublicKeyUtils_decode(publicKeyMultibase) ==
    LET publicKeyBytes == base58btc_decode(publicKeyMultibase)
    IN IF publicKeyBytes.err # NoError THEN Throw(publicKeyBytes.err)
       ELSE IF ~everyMatchesPrefix(slice(publicKeyBytes.val, 0, 2))
       THEN Throw("DECODE_PUBLIC_KEY_MULTIBASE_ERROR")
       ELSE Ok(publicKeyBytes.val)

\* get multibase / encode()  (src/src/keys/public-key.ts:66, src/src/crypto/public-key.ts:66)
PublicKey_multibase(pub) == PublicKeyUtils_encode(PublicKey_x(pub))

\* what a decode() call hands back: bytes or a PublicKey object
DecodedBytes(r) == [err |-> r.err, isPublicKey |-> FALSE, val |-> r.val]
DecodedKey(r) == [err |-> r.err, isPublicKey |-> TRUE, val |-> r.val]

\* decode()  (src/src/keys/public-key.ts:78): the bytes PublicKeyUtils.decode returns
PublicKey_decode(pub) ==
    LET multibase == PublicKey_multibase(pub)
    IN IF multibase.err # NoError THEN DecodedBytes(Throw(multibase.err))
       ELSE DecodedBytes(PublicKeyUtils_decode(multibase.val))

\* decode()  (src/src/crypto/public-key.ts:78): a new PublicKey of the prefix
\* byte followed by the bytes MultikeyUtils.decode returns
PublicKeyCrypto_decode(pub) ==
    LET multibase == PublicKey_multibase(pub)
        publicKeyBytes == PublicKeyUtils_decode(multibase.val)
    IN IF multibase.err # NoError THEN DecodedKey(Throw(multibase.err))
       ELSE IF publicKeyBytes.err # NoError THEN DecodedKey(Throw(publicKeyBytes.err))
       ELSE DecodedKey(PublicKey_constructor(<<PublicKey_prefix(pub)>> \o publicKeyBytes.val))


(***************************************************************************)
(* Multikey (src/unnamed/part_004:267): signing capability and             *)
(* verification methods                                                    *)
(***************************************************************************)
\* get privateKey: the KeyPair getter runs first and throws when the pair
\* holds no private key
Multikey_privateKey(mk) ==
    LET privateKey == KeyPair_privateKey(mk.keyPair)
    IN IF privateKey.err # NoError THEN Throw(privateKey.err)
       ELSE IF ~Multikey_isSigner(mk).b THEN Throw("MULTIKEY_PRIVATE_KEY_ERROR")
       ELSE Ok(privateKey.val)

MULTIKEY_TYPE == Str(<<"Multikey">>)

\* toVerificationMethod()
Multikey_toVerificationMethod(mk) ==
    LET publicKeyMultibase == PublicKey_multibase(mk.keyPair.publicKey)
    IN IF publicKeyMultibase.err # NoError THEN Throw(publicKeyMultibase.err)
       ELSE Ok([id |-> Str(mk.id), type |-> MULTIKEY_TYPE, controller |-> Str(mk.controller),
                publicKeyMultibase |-> publicKeyMultibase.val])

\* fromVerificationMethod(verificationMethod), called on the Multikey mk
Multikey_fromVerificationMethod(mk, verificationMethod) ==
    LET id == get(verificationMethod, "id")
        type == get(verificationMethod, "type")
        controller == get(verificationMethod, "controller")
        publicKeyMultibase == get(verificationMethod, "publicKeyMultibase")
        publicKeyMultibaseBytes == base58btc_decode(publicKeyMultibase)
        prefix == slice(publicKeyMultibaseBytes.val, 0, Len(SECP256K1_XONLY_PREFIX))
        noPrefix == slice(publicKeyMultibaseBytes.val, Len(SECP256K1_XONLY_PREFIX),
                          Len(publicKeyMultibaseBytes.val))
        publicKey ==
            PublicKey_constructor(<<PublicKey_prefix(mk.keyPair.publicKey)>> \o noPrefix)
    IN IF ~truthy(id) THEN Throw("MULTIKEY_VERIFICATION_METHOD_ERROR: id required")
       ELSE IF ~truthy(controller)
       THEN Throw("MULTIKEY_VERIFICATION_METHOD_ERROR: controller required")
       ELSE IF ~truthy(publicKeyMultibase)
       THEN Throw("MULTIKEY_VERIFICATION_METHOD_ERROR: publicKeyMultibase required")
       ELSE IF type # MULTIKEY_TYPE
       THEN Throw("MULTIKEY_VERIFICATION_METHOD_ERROR: type should be Multikey")
       ELSE IF publicKeyMultibaseBytes.err # NoError THEN Throw(publicKeyMultibaseBytes.err)
       ELSE IF ~everyMatchesPrefix(prefix)
       THEN Throw("MULTIKEY_VERIFICATION_METHOD_ERROR: incorrect prefix")
       ELSE IF publicKey.err # NoError THEN Throw(publicKey.err)
       ELSE Multikey_constructor(id.str, controller.str,
                                 KeyPair_constructor(Nil, publicKey.val).val)


(***************************************************************************)
(* Verification-method layer: a caller encodes and decodes public keys,    *)
(* asks a Multikey for its capabilities and converts it to and from a      *)
(* verification method                                                     *)
(***************************************************************************)
\* every PublicKey object the constructor of src/src/keys/public-key.ts:28 hands out
AnyPublicKeys == {PublicKey_constructor(bytes).val : bytes \in PublicKeyInputs} \ {Nil}

\* multibase strings offered to the decoders
MultibaseInputs ==
    {base58btc_encode(bytes) :
        bytes \in {SECP256K1_XONLY_PREFIX \o x : x \in XInputs}
                  \cup {<<225, 75>> \o x : x \in XInputs}
                  \cup XInputs
                  \cup {<< >>, <<225>>, <<74>>, <<225, 74>>}}
        \cup {Str(<<"not-multibase">>)}

\* verification methods offered to fromVerificationMethod
VerificationMethods ==
    {literal("id" :> id @@ "type" :> type @@ "controller" :> controller
             @@ "publicKeyMultibase" :> publicKeyMultibase) :
        id \in {Str(MK_ID), Absent},
        type \in {MULTIKEY_TYPE, Str(<<"JsonWebKey2020">>)},
        controller \in {Str(MK_CONTROLLER), Absent},
        publicKeyMultibase \in MultibaseInputs \cup {Absent}}

\* new Multikey({ id, controller, keyPair: new KeyPair({ privateKey, publicKey }) })
\* with any PublicKey object that exists
NewMultikeyAny ==
    /\ multikey = Nil
    /\ \E privateKey \in {PrivateKeyFlip_constructor(BytesSeed(SignerSecret)).val, Nil},
          publicKey \in AnyPublicKeys \cup {Nil} :
          \E keyPair \in {KeyPair_constructor(privateKey, publicKey)} :
          \E r \in {IF keyPair.err # NoError THEN Throw(keyPair.err)
                    ELSE Multikey_constructor(MK_ID, MK_CONTROLLER, keyPair.val)} :
             /\ multikey' = r.val
             /\ last' = [op |-> "newMultikey", err |-> r.err]
    /\ UNCHANGED <<proofVars, keyVars, sig>>

\* PublicKeyUtils.encode(bytes)
Encode ==
    /\ \E bytes \in PublicKeyInputs :
          \E r \in {PublicKeyUtils_encode(bytes)} :
             last' = [op |-> "encode", input |-> bytes, err |-> r.err, val |-> r.val]
    /\ UNCHANGED <<proofVars, keyVars, signVars>>

\* PublicKeyUtils.decode(publicKeyMultibase)
Decode ==
    /\ \E publicKeyMultibase \in MultibaseInputs :
          \E r \in {PublicKeyUtils_decode(publicKeyMultibase)} :
             last' = [op |-> "decode", input |-> publicKeyMultibase,
                      err |-> r.err, val |-> r.val]
    /\ UNCHANGED <<proofVars, keyVars, signVars>>

\* publicKey.decode() of a PublicKey of src/src/keys or of src/src/crypto
PublicKeyDecode ==
    /\ \E class \in {"keys", "crypto"}, pub \in AnyPublicKeys :
          \E r \in {IF class = "keys" THEN PublicKey_decode(pub)
                    ELSE PublicKeyCrypto_decode(pub)} :
             last' = [op |-> "publicKey.decode", class |-> class, publicKey |-> pub,
                      err |-> r.err, isPublicKey |-> r.isPublicKey, val |-> r.val]
    /\ UNCHANGED <<proofVars, keyVars, signVars>>

\* multikey.isSigner
IsSigner ==
    /\ multikey # Nil
    /\ \E r \in {Multikey_isSigner(multikey)} :
          last' = [op |-> "isSigner", err |-> r.err, b |-> r.b]
    /\ UNCHANGED <<proofVars, keyVars, signVars>>

\* multikey.privateKey
GetPrivateKey ==
    /\ multikey # Nil
    /\ \E r \in {Multikey_privateKey(multikey)} :
          last' = [op |-> "privateKey", err |-> r.err, val |-> r.val]
    /\ UNCHANGED <<proofVars, keyVars, signVars>>

\* multikey.publicKey and multikey.fullId()
FullId ==
    /\ multikey # Nil
    /\ last' = [op |-> "fullId", err |-> NoError, val |-> Multikey_fullId(multikey),
                publicKey |-> multikey.keyPair.publicKey]
    /\ UNCHANGED <<proofVars, keyVars, signVars>>

\* multikey.verify(signature, m) of a signature some key holder made over m
VerifyReceived ==
    /\ multikey # Nil
    /\ \E secret \in {SignerSecret, OtherSecret}, m \in Messages :
          \E r \in {Multikey_verify(multikey, schnorr_sign(m, secret, 1).val, m)} :
             last' = [op |-> "verifyReceived", secret |-> secret, err |-> r.err, b |-> r.b]
    /\ UNCHANGED <<proofVars, keyVars, signVars>>

\* multikey.toVerificationMethod()
ToVerificationMethod ==
    /\ multikey # Nil
    /\ \E r \in {Multikey_toVerificationMethod(multikey)} :
          last' = [op |-> "toVerificationMethod", err |-> r.err, val |-> r.val]
    /\ UNCHANGED <<proofVars, keyVars, signVars>>

\* k.fromVerificationMethod(verificationMethod), called on the Multikey itself
\* or on another Multikey
FromVerificationMethod ==
    /\ multikey # Nil
    /\ \E self \in {multikey, VerifierMultikey}, verificationMethod \in VerificationMethods :
          \E r \in {Multikey_fromVerificationMethod(self, verificationMethod)} :
             last' = [op |-> "fromVerificationMethod", self |-> self,
                      verificationMethod |-> verificationMethod,
                      err |-> r.err, val |-> r.val]
    /\ UNCHANGED <<proofVars, keyVars, signVars>>

VmNext ==
    \/ NewMultikeyAny
    \/ Encode
    \/ Decode
    \/ PublicKeyDecode
    \/ IsSigner
    \/ GetPrivateKey
    \/ FullId
    \/ VerifyReceived
    \/ ToVerificationMethod
    \/ FromVerificationMethod

VmSpec == KeyInit /\ [][VmNext]_vars


(***************************************************************************)
(* Properties of the verification-method layer                             *)
(***************************************************************************)
\* C11: for every 32-byte x-only key x, decode(encode(x)) succeeds and returns
\* exactly the bytes x; for every well-formed PublicKey pk, pk.decode()
\* succeeds and returns a PublicKey equal to pk.
C11_MultibaseRoundTrip ==
    /\ (last.op = "decode"
            /\ last.input \in {PublicKeyUtils_encode(x).val : x \in XInputs}) =>
          /\ last.err = NoError
          /\ \E x \in XInputs : last.input = PublicKeyUtils_encode(x).val /\ last.val = x
    /\ (last.op = "publicKey.decode" /\ WellFormedPublicKey(last.publicKey)) =>
          /\ last.err = NoError
          /\ last.isPublicKey
          /\ PublicKey_equals(last.val, last.publicKey)


\* the bytes start with the two header bytes
startsWithPrefix(bytes) ==
    Len(bytes) >= Len(SECP256K1_XONLY_PREFIX)
        /\ SubSeq(bytes, 1, Len(SECP256K1_XONLY_PREFIX)) = SECP256K1_XONLY_PREFIX

\* a verification method whose id, controller and type pass the checks made
\* before publicKeyMultibase is decoded, and whose publicKeyMultibase decodes
decodable(verificationMethod) ==
    /\ truthy(get(verificationMethod, "id"))
    /\ truthy(get(verificationMethod, "controller"))
    /\ get(verificationMethod, "type") = MULTIKEY_TYPE
    /\ "b58" \in DOMAIN get(verificationMethod, "publicKeyMultibase")

\* C12: decode fails with the invalid-prefix error for every multibase string
\* whose decoded bytes do not start with 0xe1 0x4a (strings that decode to
\* fewer than two bytes included), and so does fromVerificationMethod.
C12_DecodeRejectsWrongPrefix ==
    /\ (last.op = "decode" /\ "b58" \in DOMAIN last.input
            /\ ~startsWithPrefix(last.input.b58)) =>
          last.err = "DECODE_PUBLIC_KEY_MULTIBASE_ERROR"
    /\ (last.op = "fromVerificationMethod" /\ decodable(last.verificationMethod)
            /\ ~startsWithPrefix(last.verificationMethod.publicKeyMultibase.b58)) =>
          last.err = "MULTIKEY_VERIFICATION_METHOD_ERROR: incorrect prefix"


\* C13: for every Multikey mk, toVerificationMethod succeeds and
\* fromVerificationMethod(toVerificationMethod(mk)) is a Multikey with mk's id
\* and controller, a public key equal to mk's, and no private key.
C13_VerificationMethodRoundTrip ==
    /\ last.op = "toVerificationMethod" => last.err = NoError
    /\ (last.op = "fromVerificationMethod"
            /\ Multikey_toVerificationMethod(multikey).err = NoError
            /\ last.verificationMethod = Multikey_toVerificationMethod(multikey).val) =>
          /\ last.err = NoError
          /\ last.val.id = multikey.id
          /\ last.val.controller = multikey.controller
          /\ PublicKey_equals(last.val.keyPair.publicKey, multikey.keyPair.publicKey)
          /\ last.val.keyPair.privateKey = Nil


\* C14: sign on a Multikey whose KeyPair holds no PrivateKey fails with the
\* Multikey's own missing-private-key error and makes no signature; sign
\* succeeds only on a Multikey whose KeyPair holds a PrivateKey.
C14_SignNeedsPrivateKey ==
    last.op = "sign" =>
        /\ multikey.keyPair.privateKey = Nil =>
              (last.err = "MULTIKEY_SIGN_ERROR" /\ sig = Nil)
        /\ last.err = NoError => multikey.keyPair.privateKey # Nil


\* C15: on a Multikey built from a PublicKey-only KeyPair (the public key
\* well formed) no capability query raises: isSigner is false, privateKey is
\* reported as absent, and publicKey, fullId, verify and toVerificationMethod
\* succeed.
C15_VerifierQueriesNeverRaise ==
    (multikey # Nil /\ multikey.keyPair.privateKey = Nil
            /\ WellFormedPublicKey(multikey.keyPair.publicKey)) =>
        /\ last.op = "isSigner" => (last.err = NoError /\ ~last.b)
        /\ last.op = "privateKey" => (last.err = NoError /\ last.val = Nil)
        /\ last.op \in {"fullId", "verifyReceived", "toVerificationMethod"} =>
              last.err = NoError



(***************************************************************************)
(* DataIntegrityProof layer: proof options with a domain and a challenge,  *)
(* and secured documents that arrive as bytes                              *)
(***************************************************************************)
EXAMPLE_DOMAIN == Str(<<"example.com">>)
CHALLENGE_A == Str(<<"challenge-", "a">>)
CHALLENGE_B == Str(<<"challenge-", "b">>)
EMPTY == Str(<< >>)

\* proof options with a domain and a challenge a caller passes to the instance
ChallengeOptions ==
    {literal("type" :> Str(DATA_INTEGRITY_PROOF) @@ "cryptosuite" :> Str(cs.cryptosuite)
             @@ "verificationMethod" :> FULL_ID @@ "proofPurpose" :> proofPurpose
             @@ "domain" :> domain @@ "challenge" :> challenge) :
        proofPurpose \in {ASSERTION_METHOD, EMPTY, Absent},
        domain \in {EXAMPLE_DOMAIN, Absent},
        challenge \in {CHALLENGE_A, EMPTY, Absent}}

\* JSON texts that arrive from elsewhere: values that are no objects, and
\* objects whose proof member is missing, no object, or incomplete
WireTexts ==
    LET doc == "id" :> Str(<<"urn:doc:", "1">>)
        proof == "type" :> Str(DATA_INTEGRITY_PROOF) @@ "cryptosuite" :> Str(BIP340_JCS_2025)
                 @@ "verificationMethod" :> FULL_ID @@ "proofPurpose" :> ASSERTION_METHOD
                 @@ "proofValue" :> Str(<<"z", "...">>)
        values ==
            {Null, Num(7), Str(<<"text">>), Arr(<<"urn:doc:", "1">>), Obj(doc)}
            \cup {Obj(set(doc, "proof", p)) :
                    p \in {Null, Num(7), Str(<<"text">>), Arr(<<"proof">>), Obj(proof),
                           Obj([k \in DOMAIN proof \ {"type"} |-> proof[k]]),
                           Obj(set(proof, "type", EMPTY)),
                           Obj(set(proof, "verificationMethod", Null)),
                           Obj([k \in DOMAIN proof \ {"proofPurpose"} |-> proof[k]])}}
    IN {[utf8 |-> "json", text |-> v] : v \in values}

\* the caller builds a document and proof options
DipPrepare ==
    /\ prov = "none"
    /\ \E doc \in Documents, opts \in ChallengeOptions :
          /\ document' = doc
          /\ options' = opts
    /\ prov' = "input"
    /\ last' = [op |-> "prepare"]
    /\ UNCHANGED <<keyVars, signVars, cs, calls, added, signCount>>

\* the caller receives a document secured elsewhere: its proof carries some
\* proof options and a signature by the holder of the signer's key
DipReceive ==
    /\ prov = "none"
    /\ \E doc \in Documents, opts \in ChallengeOptions :
          \E proof \in {set(opts, "proofValue",
                            base58btc_encode(schnorr_sign(hashOf(opts, doc), SignerSecret, 1).val))} :
             /\ document' = set(doc, "proof", Obj(proof))
             /\ options' = proof
    /\ prov' = "received"
    /\ last' = [op |-> "receive"]
    /\ UNCHANGED <<keyVars, signVars, cs, calls, added, signCount>>

\* new DataIntegrityProof(cs).addProof(document, options)
DipAddProof ==
    /\ prov = "input"
    /\ signCount < MaxSigns
    /\ \E aux \in 1 .. MaxAux :
          \E r \in {DataIntegrityProof_addProof(cs, document, options, aux)} :
             /\ document' = r.document
             /\ options' = r.options
             /\ signCount' = IF r.signed THEN signCount + 1 ELSE signCount
             /\ added' = IF r.err = NoError
                         THEN [document |-> document, options |-> options] ELSE added
             /\ prov' = IF r.err = NoError THEN "secured" ELSE prov
             /\ last' = [op |-> "addProof", document |-> document, options |-> options,
                         err |-> r.err, signed |-> r.signed, proof |-> r.proof,
                         returned |-> r.val]
    /\ UNCHANGED <<keyVars, signVars, cs, calls>>

\* somebody replaces the challenge inside the proof of the secured document
DipTamper ==
    /\ prov \in {"secured", "received"}
    /\ \E challenge \in {CHALLENGE_A, CHALLENGE_B} :
          /\ get(document["proof"].obj, "challenge") # challenge
          /\ document' = set(document, "proof",
                             Obj(set(document["proof"].obj, "challenge", challenge)))
    /\ prov' = "challenge"
    /\ last' = [op |-> "tamper"]
    /\ UNCHANGED <<keyVars, signVars, cs, calls, options, added, signCount>>

\* new DataIntegrityProof(cs).verifyProof({ mediaType, documentBytes,
\* expectedProofPurpose, challenge }) with the bytes of the caller's document
DipVerifyProof ==
    /\ prov # "none"
    /\ \E expectedProofPurpose \in {ASSERTION_METHOD, AUTHENTICATION, EMPTY, Absent},
          challenge \in {CHALLENGE_A, CHALLENGE_B, EMPTY, Absent} :
          \E r \in {DataIntegrityProof_verifyProof(cs, Str(<<"application/json">>),
                        JSON_stringify(document), expectedProofPurpose, challenge)} :
             last' = [op |-> "verifyBytes", parsed |-> JSON_parse(JSON_stringify(document)),
                      expectedProofPurpose |-> expectedProofPurpose,
                      challenge |-> challenge, tampered |-> (prov = "challenge"),
                      err |-> r.err, res |-> r.val, invoked |-> r.invoked]
    /\ UNCHANGED <<keyVars, signVars, proofVars>>

\* the same call with bytes that arrive from elsewhere
DipVerifyWire ==
    /\ prov = "none"
    /\ \E documentBytes \in WireTexts,
          expectedProofPurpose \in {ASSERTION_METHOD, AUTHENTICATION, Absent},
          challenge \in {CHALLENGE_A, Absent} :
          \E r \in {DataIntegrityProof_verifyProof(cs, Str(<<"application/json">>),
                        documentBytes, expectedProofPurpose, challenge)} :
             last' = [op |-> "verifyBytes", parsed |-> JSON_parse(documentBytes),
                      expectedProofPurpose |-> expectedProofPurpose,
                      challenge |-> challenge, tampered |-> FALSE,
                      err |-> r.err, res |-> r.val, invoked |-> r.invoked]
    /\ UNCHANGED <<keyVars, signVars, proofVars>>

DipNext ==
    \/ DipPrepare
    \/ DipReceive
    \/ DipAddProof
    \/ DipTamper
    \/ DipVerifyProof
    \/ DipVerifyWire

DipSpec == ProofInit /\ [][DipNext]_vars

(***************************************************************************)
(* Properties of the DataIntegrityProof layer                              *)
(***************************************************************************)
\* the proof createProof returned to addProof lacks a required member, or the
\* options passed in set a domain or a challenge the proof does not carry
proofRejected ==
    \/ ~truthy(get(last.proof, "type"))
    \/ ~truthy(get(last.proof, "verificationMethod"))
    \/ ~truthy(get(last.proof, "proofPurpose"))
    \/ /\ truthy(get(last.options, "domain"))
       /\ get(last.options, "domain") # get(last.proof, "domain")
    \/ /\ truthy(get(last.options, "challenge"))
       /\ get(last.options, "challenge") # get(last.proof, "challenge")

\* C16: when createProof returned a proof to addProof, addProof fails with a
\* proof-generation error and leaves the document without a proof if the proof
\* lacks type, verificationMethod or proofPurpose or disagrees with a domain or
\* challenge set in the options, and otherwise returns the document with that
\* proof attached
C16_AddProofChecks ==
    (last.op = "addProof" /\ last.proof # Nil) =>
        IF proofRejected
        THEN /\ last.err = "PROOF_GENERATION_ERROR"
             /\ document = last.document
             /\ "proof" \notin DOMAIN document
        ELSE /\ last.err = NoError
             /\ last.returned = document
             /\ document = set(last.document, "proof", Obj(last.proof))

\* addProof refused a proof that createProof had returned
C16_Witness ==
    /\ last.op = "addProof"
    /\ last.proof # Nil
    /\ proofRejected
    /\ last.err = "PROOF_GENERATION_ERROR"

\* the proof member of the value parsed from documentBytes
parsedProof == member(last.parsed, "proof")

\* C17: verifyProof of documentBytes whose parsed value is no JSON object, or
\* whose proof member is absent or no JSON object, fails with the parsing
\* error and does not call the cryptosuite
C17_ParsingErrors ==
    (last.op = "verifyBytes" /\ (~isObj(last.parsed) \/ ~isObj(parsedProof))) =>
        last.err = "PARSING_ERROR" /\ ~last.invoked

\* the parsed proof lacks a required member or has another purpose than the
\* expected one
parsedProofRefused ==
    \/ ~truthy(get(parsedProof.obj, "type"))
    \/ ~truthy(get(parsedProof.obj, "verificationMethod"))
    \/ ~truthy(get(parsedProof.obj, "proofPurpose"))
    \/ /\ truthy(last.expectedProofPurpose)
       /\ last.expectedProofPurpose # get(parsedProof.obj, "proofPurpose")

\* C18: verifyProof of a document with a proof object that lacks type,
\* verificationMethod or proofPurpose, or whose proofPurpose differs from a
\* supplied expectedProofPurpose, fails with the proof-verification error
\* without calling the cryptosuite
C18_VerificationErrors ==
    (/\ last.op = "verifyBytes"
     /\ isObj(last.parsed)
     /\ isObj(parsedProof)
     /\ parsedProofRefused) =>
        last.err = "PROOF_VERIFICATION_ERROR" /\ ~last.invoked

\* a complete proof was refused for its purpose
C18_Witness ==
    /\ last.op = "verifyBytes"
    /\ isObj(last.parsed)
    /\ isObj(parsedProof)
    /\ truthy(get(parsedProof.obj, "type"))
    /\ truthy(get(parsedProof.obj, "verificationMethod"))
    /\ truthy(get(parsedProof.obj, "proofPurpose"))
    /\ truthy(last.expectedProofPurpose)
    /\ last.expectedProofPurpose # get(parsedProof.obj, "proofPurpose")
    /\ last.err = "PROOF_VERIFICATION_ERROR"

\* a challenge was supplied and the parsed proof carries another one or none
wrongChallenge ==
    /\ isObj(last.parsed)
    /\ isObj(parsedProof)
    /\ truthy(last.challenge)
    /\ last.challenge # get(parsedProof.obj, "challenge")

\* C19: verifyProof with a supplied challenge that differs from the challenge
\* of a complete proof with the expected purpose fails with the
\* invalid-challenge error, which is not the proof-verification error, without
\* calling the cryptosuite; no call with a supplied challenge that differs from
\* the proof's returns a result
C19_InvalidChallenge ==
    (last.op = "verifyBytes" /\ wrongChallenge) =>
        /\ last.err # NoError
        /\ last.res = Nil
        /\ ~last.invoked
        /\ ~parsedProofRefused =>
              /\ last.err = "INVALID_CHALLENGE_ERROR"
              /\ last.err # "PROOF_VERIFICATION_ERROR"

\* a signed document whose proof carries another challenge than the supplied
\* one was refused
C19_Witness ==
    /\ last.op = "verifyBytes"
    /\ wrongChallenge
    /\ ~parsedProofRefused
    /\ "proofValue" \in DOMAIN parsedProof.obj
    /\ get(parsedProof.obj, "challenge") \in {CHALLENGE_A, CHALLENGE_B}
    /\ last.err = "INVALID_CHALLENGE_ERROR"

(***************************************************************************)
(* Repeated createProof runs (proof layer)                                 *)
(***************************************************************************)
\* the hash under the signature in the proofValue of a proof
signedHash(proof) == proof["proofValue"].b58.body.s.m

\* C20: two successive createProof runs of a Cryptosuite with cryptosuite
\* bip-340-jcs-2025 over the caller's document and options object sign the
\* same hash
C20_SameHashEachRun ==
    [][(/\ cs.impl = "DI"
        /\ last.op = "createProof"
        /\ last.signed
        /\ last'.op = "createProof"
        /\ last'.signed) => signedHash(last'.proof) = signedHash(last.proof)]_vars

(***************************************************************************)
(* What a failed createProof or addProof leaves behind (proof layer)       *)
(***************************************************************************)
\* C21: after a createProof or addProof call that failed, the document has no
\* proof member, and the caller's options object has no proofValue and no
\* @context that it did not have when it was passed in
C21_NoPartialOutput ==
    (last.op \in {"createProof", "addProof"} /\ last.err # NoError) =>
        /\ "proof" \notin DOMAIN document
        /\ "proofValue" \in DOMAIN options => "proofValue" \in DOMAIN last.options
        /\ "@context" \in DOMAIN options => "@context" \in DOMAIN last.options

(***************************************************************************)
(* Construction layer: keys, key pairs, and a Multikey made from a pair    *)
(***************************************************************************)
\* new Multikey({ id, controller, keyPair }) with the caller's KeyPair or
\* without one, as the last thing the caller does
NewMultikeyOf ==
    /\ last.op # "newMultikey"
    /\ \E keyPair \in {kp, Nil} :
          \E r \in {Multikey_constructor(MK_ID, MK_CONTROLLER, keyPair)} :
             /\ multikey' = r.val
             /\ last' = [op |-> "newMultikey", keyPair |-> keyPair, err |-> r.err]
    /\ UNCHANGED <<keyVars, sig, proofVars>>

\* KeyPairUtils.generate() (src/src/keys/key-pair.ts:118) when
\* getRandomValues fills the array with the given bytes
KeyPairUtils_generate(random) ==
    LET privateKey == PrivateKey_constructor(BytesSeed(random))
        \* the statements after  privateKey.computePublicKey()
        then(publicKey) ==
            IF publicKey.err # NoError THEN Throw(publicKey.err)
            ELSE KeyPair_constructor(publicKey.self, publicKey.val)
    IN IF privateKey.err # NoError THEN Throw(privateKey.err)
       ELSE then(PrivateKeyUtils_computePublicKey(privateKey.val))

\* KeyPair.generate() (src/src/crypto/key-pair.ts:83) when the random bytes
\* are the given ones
KeyPairCrypto_generate(random) ==
    LET privateKey == PrivateKeyNoble_constructor(BytesSeed(random), random)
        \* the statements after  privateKey.toPublicKey()
        then(publicKey) ==
            IF publicKey.err # NoError THEN Throw(publicKey.err)
            ELSE KeyPairCrypto_constructor(publicKey.self, publicKey.val)
    IN IF privateKey.err # NoError THEN Throw(privateKey.err)
       ELSE then(PrivateKeyNoble_toPublicKey(privateKey.val))

\* the 32-byte arrays the random source may give
RandomBytes == {seed.b : seed \in {s \in ByteSeeds : Len(s.b) = PRIVATE_KEY_LENGTH}}

\* KeyPairUtils.generate() / KeyPair.generate()
Generate ==
    /\ last.op # "newMultikey"
    /\ sk = Nil
    /\ pk = Nil
    /\ kp = Nil
    /\ \E class \in {"keys", "crypto"}, random \in RandomBytes :
          \E r \in {IF class = "keys" THEN KeyPairUtils_generate(random)
                     ELSE KeyPairCrypto_generate(random)} :
             /\ kp' = r.val
             /\ last' = [op |-> "generate", class |-> class, random |-> random,
                         err |-> r.err]
    /\ UNCHANGED <<sk, pk, signVars, proofVars>>

ConstructNext ==
    \/ last.op # "newMultikey" /\ KeyNext
    \/ Generate
    \/ NewMultikeyOf

ConstructSpec == KeyInit /\ [][ConstructNext]_vars

C23_GenerateAlwaysValid ==
    last.op = "generate" =>
        /\ last.err = NoError
        /\ kp # Nil
        /\ heldScalar(kp.privateKey) \in 1 .. CURVE.n - 1
        /\ PublicKey_prefix(kp.publicKey) = EVEN_PREFIX
        /\ PublicKey_compressed(kp.publicKey) = pointFromScalar(kp.privateKey.raw.b)

(***************************************************************************)
(* Identifier layer: Multikeys with relative and absolute ids              *)
(***************************************************************************)
\* ids and controllers a caller gives a Multikey
MultikeyIds ==
    {MK_ID, <<"#">>, MK_CONTROLLER \o MK_ID, <<"key-1">>, <<"key-1", "#", "a">>, << >>}
MultikeyControllers == {MK_CONTROLLER, <<"did:btc1:x1r">>}

\* new Multikey({ id, controller, keyPair }) with a signer's or a verifier's key pair
NewMultikeyId ==
    /\ multikey = Nil
    /\ \E id \in MultikeyIds, controller \in MultikeyControllers,
          keyPair \in {SignerMultikey.keyPair, VerifierMultikey.keyPair} :
          \E r \in {Multikey_constructor(id, controller, keyPair)} :
             /\ multikey' = r.val
             /\ last' = [op |-> "newMultikey", err |-> r.err]
    /\ UNCHANGED <<proofVars, keyVars, sig>>

IdNext ==
    \/ NewMultikeyId
    \/ FullId
    \/ MultikeySign
    \/ IsSigner
    \/ GetPrivateKey
    \/ ToVerificationMethod

IdSpec == KeyInit /\ [][IdNext]_vars

\* C24: every fullId() call returns the controller followed by the id when
\* the id starts with '#' and the id itself otherwise, and no step changes the
\* id or the controller of a Multikey that exists
C24_FullId ==
    [][/\ last'.op = "fullId" =>
              last'.val = IF Len(multikey'.id) > 0 /\ multikey'.id[1] = "#"
                          THEN multikey'.controller \o multikey'.id
                          ELSE multikey'.id
       /\ multikey # Nil =>
              /\ multikey' # Nil
              /\ multikey'.id = multikey.id
              /\ multikey'.controller = multikey.controller]_vars

\* fullId() of a Multikey with an absolute id returned the id
C24_Witness ==
    /\ last.op = "fullId"
    /\ multikey.id = MK_CONTROLLER \o MK_ID
    /\ multikey.controller # MK_CONTROLLER
    /\ last.val = multikey.id

(***************************************************************************)
(* Concurrency layer: two createProof calls in flight on one Cryptosuite   *)
(* (src/unnamed/part_004:81).  A call runs without interruption up to each *)
(* await whose promise is pending: the first after proofConfiguration has  *)
(* canonicalized the proof, the second after transformDocument has         *)
(* canonicalized the document.  calls.heap holds the callers' options      *)
(* objects, calls.of the state of each caller's call.                      *)
(***************************************************************************)
Callers == {1, 2}
OptionObjects == {1, 2}

\* options that match the instance
MatchingOptions ==
    literal("type" :> Str(DATA_INTEGRITY_PROOF) @@ "cryptosuite" :> Str(BIP340_JCS_2025)
            @@ "verificationMethod" :> FULL_ID @@ "proofPurpose" :> ASSERTION_METHOD)

\* documents the callers secure
ConcurrentDocuments ==
    {literal("@context" :> context @@ "id" :> Str(<<"urn:doc:", n>>)) :
        context \in {CONTEXT, Absent}, n \in {"1", "2"}}

ConcurrentInit ==
    /\ sk = Nil
    /\ pk = Nil
    /\ kp = Nil
    /\ multikey = Nil
    /\ sig = Nil
    /\ cs = Cryptosuite_constructor(BIP340_JCS_2025, SignerMultikey5)
    /\ document = Nil
    /\ options = Nil
    /\ added = Nil
    /\ prov = "none"
    /\ signCount = 0
    /\ calls = [heap |-> [o \in OptionObjects |-> MatchingOptions],
                of |-> [c \in Callers |-> [pc |-> "idle"]]]
    /\ last = [op |-> "init"]

inFlight(call) == call.pc \in {"awaitConfiguration", "awaitTransform"}

\* the proof object of a call as it is now: the caller's options object or
\* the copy made at line 86
proofNow(call) == IF call.proofIsOptions THEN calls.heap[call.options] ELSE call.copy

\* createProof({ document, options }) up to  await this.proofConfiguration(...)
CallCreateProof(c) ==
    /\ calls.of[c].pc = "idle"
    /\ \E doc \in ConcurrentDocuments, o \in OptionObjects :
          LET context == get(doc, "@context")
              opts == calls.heap[o]
              proof == IF truthy(context) THEN set(opts, "@context", context) ELSE opts
              others == {d \in Callers \ {c} : inFlight(calls.of[d])}
          IN \E canonicalConfig \in {Cryptosuite_proofConfiguration(cs, proof)} :
                calls' = [calls EXCEPT !.of =
                    [d \in Callers |->
                        IF d = c
                        THEN [pc |-> IF canonicalConfig.err = NoError
                                     THEN "awaitConfiguration" ELSE "failed",
                              document |-> doc, options |-> o,
                              proofIsOptions |-> ~truthy(context), copy |-> proof,
                              canonicalConfig |-> canonicalConfig.val,
                              overlapped |-> (others # {}), err |-> canonicalConfig.err]
                        ELSE IF d \in others THEN [calls.of[d] EXCEPT !.overlapped = TRUE]
                        ELSE calls.of[d]]]
    /\ last' = [op |-> "createProof:start", caller |-> c]
    /\ UNCHANGED <<keyVars, signVars, cs, document, options, added, prov, signCount>>

\* the call resumes:  await this.transformDocument({ document, options })
ResumeTransform(c) ==
    /\ calls.of[c].pc = "awaitConfiguration"
    /\ \E canonicalDocument \in
            {Cryptosuite_transformDocument(cs, calls.of[c].document,
                                           calls.heap[calls.of[c].options])} :
          calls' = [calls EXCEPT !.of[c] =
                       [pc |-> IF canonicalDocument.err = NoError
                               THEN "awaitTransform" ELSE "failed",
                        canonicalDocument |-> canonicalDocument.val,
                        err |-> canonicalDocument.err] @@ calls.of[c]]
    /\ last' = [op |-> "createProof:transform", caller |-> c]
    /\ UNCHANGED <<keyVars, signVars, cs, document, options, added, prov, signCount>>

\* the call resumes: generateHash, proofSerialization, and the assignments
\* to proof.proofValue and proof.type; the proof is returned
ResumeSerialize(c) ==
    /\ calls.of[c].pc = "awaitTransform"
    /\ \E aux \in 1 .. MaxAux :
          LET call == calls.of[c]
              hashBytes == Cryptosuite_generateHash(call.canonicalConfig, call.canonicalDocument)
          IN \E proofBytes \in {Cryptosuite_proofSerialization(cs, hashBytes,
                                                               calls.heap[call.options], aux)} :
                LET signedProof ==
                        set(set(proofNow(call), "proofValue", base58btc_encode(proofBytes.val)),
                            IF includesRdfc(cs) THEN "@type" ELSE "type", Str(cs.type))
                IN calls' =
                     IF proofBytes.err # NoError
                     THEN [calls EXCEPT !.of[c] = [pc |-> "failed", err |-> proofBytes.err] @@ call]
                     ELSE [heap |-> IF call.proofIsOptions
                                    THEN [calls.heap EXCEPT ![call.options] = signedProof]
                                    ELSE calls.heap,
                           of |-> [calls.of EXCEPT ![c] =
                                      [pc |-> "done", copy |-> signedProof] @@ call]]
    /\ last' = [op |-> "createProof:return", caller |-> c]
    /\ UNCHANGED <<keyVars, signVars, cs, document, options, added, prov, signCount>>

\* the caller attaches the proof it got back to its document and the document
\* is verified:  verifyProof({ ...document, proof })
VerifyReturned(c) ==
    /\ calls.of[c].pc = "done"
    /\ \E r \in {Cryptosuite_verifyProof(cs, set(calls.of[c].document, "proof",
                                                 Obj(proofNow(calls.of[c]))))} :
          last' = [op |-> "verifyReturned", caller |-> c,
                   overlapped |-> calls.of[c].overlapped, err |-> r.err, res |-> r.val]
    /\ UNCHANGED <<keyVars, signVars, proofVars>>

ConcurrentNext ==
    \E c \in Callers :
        \/ CallCreateProof(c)
        \/ ResumeTransform(c)
        \/ ResumeSerialize(c)
        \/ VerifyReturned(c)

ConcurrentSpec == ConcurrentInit /\ [][ConcurrentNext]_vars

\* the canonical proof configuration has a proofValue member
hasProofValue(canonicalConfig) ==
    \E i \in 1 .. Len(canonicalConfig.json) : canonicalConfig.json[i].k = "proofValue"

\* C25: of two createProof calls on one instance that were in flight at the
\* same time, each returned proof verifies when attached to its call's
\* document, and neither call canonicalized a proof configuration that
\* holds a proofValue
C25_ConcurrentCallsVerify ==
    /\ \A c \in Callers :
          (calls.of[c].pc \in {"awaitConfiguration", "awaitTransform", "done"}
              /\ calls.of[c].overlapped) => ~hasProofValue(calls.of[c].canonicalConfig)
    /\ (last.op = "verifyReturned" /\ last.overlapped) =>
          (last.err = NoError /\ last.res.verified)

\* the two canonical texts a hash was computed from
hashedTexts(hash) == IF hash.kind = "hex" THEN hash.body.body ELSE hash.body

\* the canonical text has a member of that name
hasMember(canonical, name) ==
    \E i \in 1 .. Len(canonical.json) : canonical.json[i].k = name

\* C26: the hash verifyProof checks is computed from the secured document
\* without its proof member and from the proof without its proofValue
C26_HashLeavesOutProof ==
    (last.op = "verifyProof" /\ last.err = NoError) =>
        /\ ~hasMember(hashedTexts(last.hash).document, "proof")
        /\ ~hasMember(hashedTexts(last.hash).config, "proofValue")

(***************************************************************************)
(* generateHash (proof layer)                                              *)
(***************************************************************************)
\* the hash is over a proof configuration followed by a document
configThenDocument(hash) ==
    /\ hash.kind = "hash"
    /\ hasMember(hash.body.config, "cryptosuite")
    /\ ~hasMember(hash.body.config, "id")
    /\ hasMember(hash.body.document, "id")

C28_ProofIsSignedConfig ==
    (cs.impl = "DI" /\ last.op = "createProof" /\ last.signed) =>
        jcs_canonicalize(set(last.proof, "proofValue", Undefined))
            = signedHash(last.proof).body.config

(***************************************************************************)
(* Secret layer: what a caller can do to a PrivateKey after construction   *)
(***************************************************************************)
\* sk.computePublicKey() of a key that has derived its public key before
ComputePublicKeyAgain ==
    /\ kp = Nil
    /\ sk # Nil
    /\ pk # Nil
    /\ \E d \in {computePublicKey(sk)} :
          /\ sk' = d.self
          /\ pk' = IF d.err = NoError THEN d.val ELSE pk
          /\ last' = [op |-> "computePublicKeyAgain", before |-> sk, derived |-> pk,
                      changed |-> last.op = "setSecret", err |-> d.err]
    /\ UNCHANGED <<kp, signVars, proofVars>>

\* sk.secret = secretn  (src/src/keys/public-key.ts:248)
SetSecret ==
    /\ kp = Nil
    /\ sk # Nil
    /\ sk.variant = "flip"
    /\ \E secretn \in SeedValues :
          \E r \in {PrivateKeyFlip_setSecret(sk, secretn)} :
             /\ sk' = IF r.err = NoError THEN r.val ELSE sk
             /\ last' = [op |-> "setSecret", before |-> sk, secretn |-> secretn,
                         err |-> r.err]
    /\ UNCHANGED <<pk, kp, signVars, proofVars>>

SecretNext ==
    \/ NewPrivateKey
    \/ FromSecret
    \/ ComputePublicKey
    \/ ComputePublicKeyAgain
    \/ SetSecret

SecretSpec == KeyInit /\ [][SecretNext]_vars

\* C29: a computePublicKey call after the first returns an equal PublicKey
\* and leaves the held scalar as it was, and no operation a caller has after
\* construction gives the PrivateKey another scalar
C29_NoPublicMutator ==
    /\ (last.op = "computePublicKeyAgain" /\ last.err = NoError /\ ~last.changed) =>
          /\ PublicKey_equals(pk, last.derived)
          /\ heldScalar(sk) = heldScalar(last.before)
    /\ last.op = "setSecret" => heldScalar(sk) = heldScalar(last.before)

(***************************************************************************)
(* Scalar and byte views of a PrivateKey (key layer)                       *)
(***************************************************************************)
\* C30: a PrivateKey of src/src/keys/private-key.ts built from a scalar d in
\* [1, n-1] exposes the 32 big-endian bytes of d and the secret d, and one
\* built from 32 bytes exposes the big-endian value of the bytes as secret
C30_ViewsAgree ==
    (last.op = "newPrivateKey" /\ last.variant = "utils" /\ last.err = NoError) =>
        /\ last.seed.t = "bigint" =>
              /\ PrivateKey_bytes(sk) = [err |-> NoError,
                                         val |-> toBytes(last.seed.v, PRIVATE_KEY_LENGTH)]
              /\ PrivateKey_secret(sk) = [err |-> NoError, val |-> last.seed.v]
        /\ last.seed.t = "bytes" =>
              PrivateKey_secret(sk) = [err |-> NoError, val |-> toSecret(last.seed.b)]

=============================================================================
